---- MODULE Spec2Model ----
(***************************************************************************)
(* Judge execution core: the SQLite result store (judge/results.py), the   *)
(* Redis-Streams queue client (judge/queue.py), the worker dispatch loop   *)
(* (judge/worker.py) and the worker execution service (judge/services.py). *)
(*                                                                         *)
(* Strings that the code trims or inspects are sequences of one-character  *)
(* strings, so that strip() and isdigit() are computed, not assumed.       *)
(* Redis is modelled by the documented behaviour of the commands the       *)
(* client issues: XADD appends, XREADGROUP ">" delivers the first entry     *)
(* never delivered and records it in the group's pending list, XACK        *)
(* removes from the pending list, XDEL removes from the stream, and        *)
(* XAUTOCLAIM transfers pending entries that are idle long enough.         *)
(* The clean-up job (judge/cleanup.py) is outside the dispatch core and    *)
(* is not modelled.                                                        *)
(***************************************************************************)
EXTENDS Integers, Sequences, FiniteSets, TLC

\* ---------------------------------------------------------------- bounds
MaxEntries == 2
MaxFaults == 1
MaxAttempts == 2

Workers == {"w1", "w2"}
JobIds == {<<"a">>, <<"b">>}
\* The ids job_id_factory hands out while the dispatch loop is observed.
SubmitIds == {<<"a">>}
Submitters == {"s1", "s2"}
\* int(time.time()) at a call: the model keeps one timestamp value, so a
\* time column only tells whether it has been written.
Times == {1}

\* ------------------------------------------------------------- strings
WS == {" ", "\t", "\n"}
Digits == {"0", "1", "2", "3", "4", "5", "6", "7", "8", "9"}

RECURSIVE LStrip(_)
LStrip(s) ==
    IF s = <<>> THEN <<>>
    ELSE IF Head(s) \in WS THEN LStrip(Tail(s)) ELSE s

RECURSIVE RStrip(_)
RStrip(s) ==
    IF s = <<>> THEN <<>>
    ELSE IF s[Len(s)] \in WS THEN RStrip(SubSeq(s, 1, Len(s) - 1)) ELSE s

Strip(s) == RStrip(LStrip(s))

IsDigit(s) == s # <<>> /\ \A i \in 1..Len(s) : s[i] \in Digits

Get(f, k, d) == IF k \in DOMAIN f THEN f[k] ELSE d

KindRun == <<"r", "u", "n">>
KindSubmit == <<"s", "u", "b", "m", "i", "t">>
\* The kind of the submissions made while the dispatch loop is observed.
SubmitKinds == {KindSubmit}

\* ------------------------------------------------------ result store rows
NULL == "NULL"
NullTime == 0
NoRow == [status |-> "absent"]
Terminal == {"done", "error"}

NewRow ==
    [status |-> "queued", attempts |-> 0, started_at |-> NullTime,
     finished_at |-> NullTime, result_json |-> NULL, error |-> NULL,
     error_kind |-> NULL]

HasRow(rows, j) == j \in DOMAIN rows /\ rows[j] # NoRow

create_job(rows, j) == [rows EXCEPT ![j] = NewRow]

\* Faulty variant: the UPDATE without the status condition.
mark_running_any_status(rows, j, now) ==
    IF HasRow(rows, j)
    THEN [rows |-> [rows EXCEPT ![j] =
                      [@ EXCEPT !.status = "running", !.started_at = now,
                                !.attempts = @ + 1]],
          ret |-> TRUE]
    ELSE [rows |-> rows, ret |-> FALSE]

\* Faulty variant: a reclaim of a running job does not count as an attempt.
mark_running_reclaim_uncounted(rows, j, now) ==
    IF HasRow(rows, j) /\ rows[j].status \in {"queued", "running"}
    THEN [rows |-> [rows EXCEPT ![j] =
                      [@ EXCEPT !.status = "running", !.started_at = now,
                                !.attempts =
                                    IF rows[j].status = "running" THEN @
                                    ELSE @ + 1]],
          ret |-> TRUE]
    ELSE [rows |-> rows, ret |-> FALSE]

mark_running(rows, j, now) ==
    IF HasRow(rows, j) /\ rows[j].status \in {"queued", "running"}
    THEN [rows |-> [rows EXCEPT ![j] =
                      [@ EXCEPT !.status = "running", !.started_at = now,
                                !.attempts = @ + 1]],
          ret |-> TRUE]
    ELSE [rows |-> rows, ret |-> FALSE]

\* Faulty variant: the UPDATE without the status condition.
mark_done_any_status(rows, j, result, now) ==
    IF HasRow(rows, j)
    THEN [rows |-> [rows EXCEPT ![j] =
                      [@ EXCEPT !.status = "done", !.finished_at = now,
                                !.result_json = result, !.error = NULL,
                                !.error_kind = NULL]],
          ret |-> TRUE]
    ELSE [rows |-> rows, ret |-> FALSE]

\* Faulty variant: mark_done gated like mark_error, on queued or running.
mark_done_from_queued(rows, j, result, now) ==
    IF HasRow(rows, j) /\ rows[j].status \in {"queued", "running"}
    THEN [rows |-> [rows EXCEPT ![j] =
                      [@ EXCEPT !.status = "done", !.finished_at = now,
                                !.result_json = result, !.error = NULL,
                                !.error_kind = NULL]],
          ret |-> TRUE]
    ELSE [rows |-> rows, ret |-> FALSE]

mark_done(rows, j, result, now) ==
    IF HasRow(rows, j) /\ rows[j].status = "running"
    THEN [rows |-> [rows EXCEPT ![j] =
                      [@ EXCEPT !.status = "done", !.finished_at = now,
                                !.result_json = result, !.error = NULL,
                                !.error_kind = NULL]],
          ret |-> TRUE]
    ELSE [rows |-> rows, ret |-> FALSE]

\* Faulty variant: the UPDATE without the status condition.
mark_error_any_status(rows, j, error, result, error_kind, now) ==
    IF HasRow(rows, j)
    THEN [rows |-> [rows EXCEPT ![j] =
                      [@ EXCEPT !.status = "error", !.finished_at = now,
                                !.result_json = result, !.error = error,
                                !.error_kind = error_kind]],
          ret |-> TRUE]
    ELSE [rows |-> rows, ret |-> FALSE]

\* Faulty variant: the UPDATE does not write finished_at.
mark_error_no_finished_at(rows, j, error, result, error_kind, now) ==
    IF HasRow(rows, j) /\ rows[j].status \in {"queued", "running"}
    THEN [rows |-> [rows EXCEPT ![j] =
                      [@ EXCEPT !.status = "error",
                                !.result_json = result, !.error = error,
                                !.error_kind = error_kind]],
          ret |-> TRUE]
    ELSE [rows |-> rows, ret |-> FALSE]

mark_error(rows, j, error, result, error_kind, now) ==
    IF HasRow(rows, j) /\ rows[j].status \in {"queued", "running"}
    THEN [rows |-> [rows EXCEPT ![j] =
                      [@ EXCEPT !.status = "error", !.finished_at = now,
                                !.result_json = result, !.error = error,
                                !.error_kind = error_kind]],
          ret |-> TRUE]
    ELSE [rows |-> rows, ret |-> FALSE]

RowOf(rows, j) == IF HasRow(rows, j) THEN rows[j] ELSE NoRow

\* -------------------------------------------------- worker message parser
ParseOk(f) ==
    [err |-> "none",
     job_id |-> Strip(Get(f, "job_id", <<>>)),
     problem_key |->
        IF Strip(Get(f, "problem_key", <<>>)) # <<>>
        THEN Strip(Get(f, "problem_key", <<>>))
        ELSE Strip(Get(f, "problem_id", <<>>)),
     kind |-> Strip(Get(f, "kind", KindSubmit)),
     code |-> Get(f, "code", <<>>),
     created_at |-> Strip(Get(f, "created_at", <<>>))]

ParseErr(e) == [err |-> e]

\* Faulty variant: created_at is not validated.
_parse_queue_message_any_created_at(f) ==
    IF Strip(Get(f, "job_id", <<>>)) = <<>> THEN ParseErr("missing job_id")
    ELSE IF ParseOk(f).problem_key = <<>>
         THEN ParseErr("missing problem_key/problem_id")
    ELSE IF ParseOk(f).kind \notin {KindRun, KindSubmit}
         THEN ParseErr("invalid kind")
    ELSE ParseOk(f)

\* fields come from Redis with decode_responses=True, so every value is a
\* str and the isinstance(code, str) test of the source cannot fail.
_parse_queue_message(f) ==
    IF Strip(Get(f, "job_id", <<>>)) = <<>> THEN ParseErr("missing job_id")
    ELSE IF ParseOk(f).problem_key = <<>>
         THEN ParseErr("missing problem_key/problem_id")
    ELSE IF ParseOk(f).kind \notin {KindRun, KindSubmit}
         THEN ParseErr("invalid kind")
    ELSE IF ParseOk(f).created_at # <<>> /\ ~IsDigit(ParseOk(f).created_at)
         THEN ParseErr("invalid created_at")
    ELSE ParseOk(f)

\* ----------------------------------------------------------- queue fields
\* What RedisQueue.enqueue writes for a payload built by submit().
EnqueuedFields(j, kind) ==
    [job_id |-> j, problem_id |-> <<"p">>, problem_key |-> <<"p">>,
     profile |-> <<"l">>, kind |-> kind, code |-> <<"c">>,
     created_at |-> <<"7">>]

\* Entries written to the stream by a producer other than enqueue(), which
\* validates nothing: the payloads process_entry's parse-error branch
\* exists for (a blank job_id, a padded job_id with an unknown kind, a
\* created_at that is not an integer).
ForeignFields ==
    { [job_id |-> <<" ">>, problem_key |-> <<"p">>, kind |-> KindRun],
      [job_id |-> <<" ", "b">>, problem_key |-> <<"p">>, kind |-> <<>>],
      [job_id |-> <<"b">>, problem_id |-> <<"p">>, kind |-> KindSubmit,
       code |-> <<"c">>, created_at |-> <<"x">>] }

\* ------------------------------------------------------------------ state
VARIABLES
    jobs,            \* result store: job id -> row or NoRow
    added,           \* every entry ever XADDed, by id (index)
    live,            \* ids of the entries currently in the stream
    pel,             \* consumer-group pending list: id -> consumer | "none"
    idle,            \* pending ids idle for at least job_claim_idle_ms
    lastDelivered,   \* the group's last-delivered id
    pc,              \* per worker: position in main()
    cur,             \* per worker: (msg_id, fields) being processed
    todo,            \* per worker: reclaimed entries not yet processed
    ret,             \* per worker: where process_entry returns to
    res,             \* per worker: what the executor returned
    outcome,         \* per worker: WorkerExecutionOutcome of execute()
    trace,           \* per worker: calls made while processing cur
    faultsLeft,      \* store/queue exceptions and crashes still to come
    call,            \* the most recent mutator call of a direct store client
    termOk,          \* per job: mark_done/mark_error calls that returned true
    runOk,           \* per job: mark_running calls that returned true
    finalBy,         \* per job: who made the call that finalised it
    sub,             \* per submitter: position in submit() and its locals
    queue_maxlen,    \* SubmissionService.queue_maxlen, the backlog cap
    warm,            \* one warm-fork job: parent, child and what was seen
    iso,             \* one isolate job: box, meta file and what was seen
    ensure,          \* harness file: the runtime directory and its writers
    executor,        \* the warm-fork parent: its job counter and limit
    cgroup,          \* the per-job cgroup directories of one executor
    child_env        \* parent environments and the child ones built from them

coreVars == <<jobs, added, live, pel, idle, lastDelivered, pc, cur, todo, ret,
              res, outcome, trace, faultsLeft,
              call, termOk, runOk, finalBy>>
submitVars == <<sub, queue_maxlen>>
warmVars == <<warm>>
isoVars == <<iso>>
moreVars == <<ensure, executor, cgroup, child_env>>
\* What the dispatch loop, the store clients and the enqueue clients leave
\* alone.
otherVars == <<submitVars, warmVars, isoVars, moreVars>>

vars == <<coreVars, otherVars>>

queueVars == <<added, live, pel, idle, lastDelivered>>
storeVars == <<jobs, call, termOk, runOk, finalBy>>

MsgIds == 1..MaxEntries
NoMsg == [id |-> 0]
NoOutcome == [status |-> "none"]
NoSubmit == [pc |-> "idle", job |-> <<>>, seen |-> -1, resp |-> "none",
             row |-> FALSE, entry |-> FALSE, log |-> <<>>]
\* A warm-fork job before run_problem is called: the executor's flags, the
\* child's completed set-up steps and exit, the pipes, the parent's capture
\* counters and the classification.
NoResult == [status |-> "none", error |-> NULL, error_kind |-> NULL]
NoWarm ==
    [pc |-> "idle", enable_no_new_privs |-> FALSE, enable_seccomp |-> FALSE,
     seccomp_fail_closed |-> FALSE, pidfd |-> FALSE, cgroup_path |-> FALSE,
     deny_filesystem |-> FALSE, unresolved |-> {}, denied |-> {},
     closed |-> FALSE,
     steps |-> <<>>, filter |-> FALSE, raised |-> "none", exit |-> "none",
     stdout |-> "empty", marker |-> FALSE, oom_kill |-> FALSE,
     written |-> 0, pipe |-> 0, total_bytes |-> 0, kept |-> 0,
     truncated |-> FALSE, timed_out |-> FALSE, result |-> NoResult]
\* An isolate job before run_problem is called: the --init attempts, whether
\* the box is initialised and not yet cleaned up, what the sandbox run
\* reported and the classification.
NoIso ==
    [pc |-> "idle", use_cgroups |-> FALSE, tries |-> 0, box |-> FALSE,
     returncode |-> 0, status |-> NULL, cg_oom_killed |-> NULL,
     stdout |-> "empty", raised |-> "none", result |-> NoResult]
NoCall == [op |-> "none", job |-> <<>>, ret |-> FALSE, pre |-> NoRow,
           post |-> NoRow]

Outcome(executed, status, error_kind, should_ack) ==
    [executed |-> executed, status |-> status, error_kind |-> error_kind,
     should_ack |-> should_ack]

\* What run_problem can hand back to execute(): a result without an error
\* field, a result with an error field and an error_kind, a result with an
\* error field and no error_kind, a result whose error field is the empty
\* string, or an exception.
RunResults == {"ok", "err_user", "err_nokind", "err_empty", "raise"}

\* result.get("error"): the field, or None when the result has none.
ResultError(r) ==
    CASE r \in {"err_user", "err_nokind"} -> "boom"
      [] r = "err_empty" -> ""
      [] OTHER -> NULL

\* Faulty variant: any result that has an error field is an error.
HasError_if_present(r) == ResultError(r) # NULL

\* if result.get("error"): None and the empty string are falsy.
HasError(r) == ResultError(r) \notin {NULL, ""}

ResultErrorKind(r) ==
    CASE r \in {"err_user", "err_empty"} -> "user"
      [] OTHER -> "none"

\* The processes that may materialise the harness file at the same time.
EnsureProcs == {"p1", "p2", "p3"}
\* The runtime directory before anyone wrote to it: no harness file, no
\* temporary file (0 is no inode), no process inside _ensure_harness_file.
NoEnsure ==
    [proc |-> [p \in EnsureProcs |-> [pc |-> "idle", fd |-> 0]],
     tmp |-> 0, host |-> 0, content |-> <<>>]
\* A warm-fork executor right after construction.
NoExecutor ==
    [pc |-> "idle", _max_jobs |-> 0, _job_seq |-> 0, calls |-> 0,
     last |-> "none", was_due |-> FALSE]
\* The cgroup subtree before the executor exists: nothing decided yet.
NoCgroup ==
    [pc |-> "new", _root |-> FALSE, _job_seq |-> 0, cgroup_path |-> 0,
     child |-> "none", dirs |-> {}, procs |-> {}, ended |-> <<>>]
\* No environment built yet.
NoChildEnv ==
    [pc |-> "idle", clear_env |-> FALSE, base |-> <<>>, child |-> <<>>,
     environ |-> <<>>]
InitMore ==
    /\ ensure = NoEnsure
    /\ executor = NoExecutor
    /\ cgroup = NoCgroup
    /\ child_env = NoChildEnv

InitCore ==
    /\ jobs = [j \in JobIds |-> NoRow]
    /\ added = <<>>
    /\ live = {}
    /\ pel = [m \in MsgIds |-> "none"]
    /\ idle = {}
    /\ lastDelivered = 0
    /\ pc = [w \in Workers |-> "loop"]
    /\ cur = [w \in Workers |-> NoMsg]
    /\ todo = [w \in Workers |-> <<>>]
    /\ ret = [w \in Workers |-> "loop"]
    /\ res = [w \in Workers |-> "none"]
    /\ outcome = [w \in Workers |-> NoOutcome]
    /\ trace = [w \in Workers |-> <<>>]
    /\ faultsLeft = MaxFaults
    /\ call = NoCall
    /\ termOk = [j \in JobIds |-> 0]
    /\ runOk = [j \in JobIds |-> 0]
    /\ finalBy = [j \in JobIds |-> "nobody"]

\* The dispatch loop is observed with the backlog cap disabled and no
\* executor job in progress.
Init ==
    /\ InitCore
    /\ sub = [s \in Submitters |-> NoSubmit]
    /\ queue_maxlen = 0
    /\ warm = NoWarm
    /\ iso = NoIso
    /\ InitMore

\* ------------------------------------------------- result-store call sites
\* A mutator call that returned: the store takes the rows it computed and
\* the call is recorded with the row before and after.
Finalises(op, out) == out.ret /\ op \in {"mark_done", "mark_error"}

StoreReturnsFrom(who, op, j, out) ==
    /\ jobs' = out.rows
    /\ UNCHANGED call
    /\ finalBy' = IF Finalises(op, out) THEN [finalBy EXCEPT ![j] = who]
                  ELSE finalBy
    /\ termOk' = IF Finalises(op, out)
                 THEN [termOk EXCEPT ![j] = @ + 1] ELSE termOk
    /\ runOk' = IF out.ret /\ op = "mark_running"
                THEN [runOk EXCEPT ![j] = @ + 1] ELSE runOk

\* A mutator call that raised (database locked or unavailable): the
\* transaction is rolled back and no row changes.
StoreRaises(op, j) ==
    /\ faultsLeft > 0
    /\ faultsLeft' = faultsLeft - 1
    /\ UNCHANGED call
    /\ UNCHANGED <<jobs, termOk, runOk, finalBy>>

StoreReturns(who, op, j, out) ==
    /\ StoreReturnsFrom(who, op, j, out)
    /\ UNCHANGED faultsLeft

CurJob(w) == Strip(Get(cur[w].fields, "job_id", <<>>))


\* ------------------------------------------------------------- producers
XADD(f) ==
    /\ added' = Append(added, f)
    /\ live' = live \cup {Len(added) + 1}

\* SubmissionService.submit, enqueue succeeding: the row is inserted as
\* queued and the validated fields are appended to the stream.
SubmitAccepted(j, kind) ==
    /\ ~HasRow(jobs, j)
    /\ Len(added) < MaxEntries
    /\ jobs' = create_job(jobs, j)
    /\ XADD(EnqueuedFields(j, kind))
    /\ UNCHANGED <<pel, idle, lastDelivered, pc, cur, todo, ret, res, outcome,
                   trace, faultsLeft, call,
                   termOk, runOk, finalBy>>
    /\ UNCHANGED otherVars

\* SubmissionService.submit, enqueue raising: _persist_enqueue_failure
\* issues mark_error(kind=internal) on the row just inserted; an exception
\* of that call is logged and swallowed.
SubmitEnqueueFails(j) ==
    /\ ~HasRow(jobs, j)
    /\ \/ \E now \in Times :
            /\ StoreReturnsFrom("submitter", "mark_error", j,
                  mark_error(create_job(jobs, j), j, "Failed to enqueue job",
                             NULL, "internal", now))
            /\ UNCHANGED faultsLeft
       \/ /\ faultsLeft > 0
          /\ faultsLeft' = faultsLeft - 1
          /\ jobs' = create_job(jobs, j)
          /\ UNCHANGED <<call, termOk, runOk, finalBy>>
    /\ UNCHANGED <<queueVars, pc, cur, todo, ret, res, outcome, trace>>
    /\ UNCHANGED otherVars

\* A producer other than submit(): it inserts the row of the job it names,
\* if it names one, and appends unvalidated fields.
ForeignWrite(f) ==
    /\ Len(added) < MaxEntries
    /\ IF Strip(Get(f, "job_id", <<>>)) = <<>>
       THEN UNCHANGED jobs
       ELSE /\ ~HasRow(jobs, Strip(Get(f, "job_id", <<>>)))
            /\ jobs' = create_job(jobs, Strip(Get(f, "job_id", <<>>)))
    /\ XADD(f)
    /\ UNCHANGED <<pel, idle, lastDelivered, pc, cur, todo, ret, res, outcome,
                   trace, faultsLeft, call, termOk, runOk, finalBy>>
    /\ UNCHANGED otherVars

\* ------------------------------------------------------------ queue reads
JobClaimCount == 10

RECURSIVE SortedIds(_)
SortedIds(S) ==
    IF S = {} THEN <<>>
    ELSE LET m == CHOOSE x \in S : \A y \in S : x <= y
         IN <<m>> \o SortedIds(S \ {m})

Entry(m) == [id |-> m, fields |-> added[m]]

\* Faulty variant: XAUTOCLAIM also returns delivered entries that are still
\* in the stream but off the pending list.
Claimable_from_stream ==
    LET ids == SortedIds({m \in MsgIds :
                           \/ pel[m] # "none" /\ m \in idle
                           \/ /\ pel[m] = "none"
                              /\ m \in live
                              /\ m <= lastDelivered})
    IN SubSeq(ids, 1, IF Len(ids) < JobClaimCount THEN Len(ids)
                      ELSE JobClaimCount)

\* XAUTOCLAIM from 0-0: the first `count` pending entries that are idle
\* long enough, in id order.
Claimable ==
    LET ids == SortedIds({m \in MsgIds : pel[m] # "none" /\ m \in idle})
    IN SubSeq(ids, 1, IF Len(ids) < JobClaimCount THEN Len(ids)
                      ELSE JobClaimCount)

Undelivered == {m \in live : m > lastDelivered}

\* Top of the while loop with the reclaim interval elapsed: autoclaim.
Autoclaim(w) ==
    /\ pc[w] = "loop"
    /\ LET ids == Claimable
           claimed == {ids[i] : i \in 1..Len(ids)}
       IN /\ todo' = [todo EXCEPT ![w] = [i \in 1..Len(ids) |-> Entry(ids[i])]]
          /\ pel' = [m \in MsgIds |-> IF m \in claimed THEN w ELSE pel[m]]
          /\ idle' = idle \ claimed
    /\ pc' = [pc EXCEPT ![w] = IF Claimable = <<>> THEN "read" ELSE "drain"]
    /\ UNCHANGED <<jobs, added, live, lastDelivered, cur, ret, res, outcome,
                   trace, faultsLeft, call,
                   termOk, runOk, finalBy>>
    /\ UNCHANGED otherVars

\* Top of the while loop with the reclaim interval not elapsed.
SkipReclaim(w) ==
    /\ pc[w] = "loop"
    /\ pc' = [pc EXCEPT ![w] = "read"]
    /\ UNCHANGED <<queueVars, storeVars, cur, todo, ret, res, outcome, trace,
                   faultsLeft>>
    /\ UNCHANGED otherVars

\* for msg_id, fields in reclaimed: process_entry(msg_id, fields)
DrainNext(w) ==
    /\ pc[w] = "drain"
    /\ todo[w] # <<>>
    /\ cur' = [cur EXCEPT ![w] = Head(todo[w])]
    /\ todo' = [todo EXCEPT ![w] = Tail(todo[w])]
    /\ ret' = [ret EXCEPT ![w] = "drain"]
    /\ pc' = [pc EXCEPT ![w] = "entry"]
    /\ UNCHANGED <<queueVars, storeVars, res, outcome, trace, faultsLeft>>
    /\ UNCHANGED otherVars

\* queue.read: XREADGROUP ">" count=1 delivers the first entry never
\* delivered to the group and puts it on the pending list.
ReadEntry(w) ==
    /\ pc[w] = "read"
    /\ Undelivered # {}
    /\ LET m == CHOOSE x \in Undelivered : \A y \in Undelivered : x <= y
       IN /\ pel' = [pel EXCEPT ![m] = w]
          /\ lastDelivered' = m
          /\ cur' = [cur EXCEPT ![w] = Entry(m)]
    /\ ret' = [ret EXCEPT ![w] = "loop"]
    /\ pc' = [pc EXCEPT ![w] = "entry"]
    /\ UNCHANGED <<jobs, added, live, idle, todo, res, outcome, trace,
                   faultsLeft, call, termOk,
                   runOk, finalBy>>
    /\ UNCHANGED otherVars

\* queue.read returning None after the block timeout.
ReadNone(w) ==
    /\ pc[w] = "read"
    /\ Undelivered = {}
    /\ pc' = [pc EXCEPT ![w] = "loop"]
    /\ UNCHANGED <<queueVars, storeVars, cur, todo, ret, res, outcome, trace,
                   faultsLeft>>
    /\ UNCHANGED otherVars

\* The staleness window of a pending entry elapses.
BecomeIdle(m) ==
    /\ pel[m] # "none"
    /\ m \notin idle
    /\ idle' = idle \cup {m}
    /\ UNCHANGED <<jobs, added, live, pel, lastDelivered, pc, cur, todo, ret,
                   res, outcome, trace, faultsLeft, call, termOk, runOk, finalBy>>
    /\ UNCHANGED otherVars


\* ---------------------------------------------------------- process_entry
Tok(op, r) == <<op, IF r THEN "true" ELSE "false">>
Log(w, t) == trace' = [trace EXCEPT ![w] = Append(@, t)]

\* Faulty variant: only executed jobs are acked.
AfterExecute_executed_only(o) ==
    IF o.executed /\ o.should_ack THEN "ack" ELSE "done"

\* if outcome.should_ack: queue.ack_and_delete(...)
AfterExecute(o) == IF o.should_ack THEN "ack" ELSE "done"

\* Parse error and no job_id in the fields: nothing to report to, the entry
\* goes straight to ack_and_delete.
EntryNoJobId(w) ==
    /\ pc[w] = "entry"
    /\ _parse_queue_message(cur[w].fields).err # "none"
    /\ CurJob(w) = <<>>
    /\ Log(w, <<"parse_error", "no_job_id">>)
    /\ pc' = [pc EXCEPT ![w] = "ack"]
    /\ UNCHANGED <<queueVars, storeVars, cur, todo, ret, res, outcome,
                   faultsLeft>>
    /\ UNCHANGED otherVars

\* Parse error with a job_id: mark_error(kind=internal) for that job; an
\* exception of the store is logged and swallowed; then ack_and_delete.
EntryInvalid(w) ==
    /\ pc[w] = "entry"
    /\ _parse_queue_message(cur[w].fields).err # "none"
    /\ CurJob(w) # <<>>
    /\ \/ \E now \in Times :
            LET out == mark_error(jobs, CurJob(w), "Invalid queue payload",
                                  NULL, "internal", now)
            IN /\ StoreReturns(w, "mark_error", CurJob(w), out)
               /\ Log(w, Tok("mark_error", out.ret))
       \/ /\ StoreRaises("mark_error", CurJob(w))
          /\ Log(w, <<"mark_error", "raise">>)
    /\ pc' = [pc EXCEPT ![w] = "ack"]
    /\ UNCHANGED <<queueVars, cur, todo, ret, res, outcome>>
    /\ UNCHANGED otherVars

ClearLocals(w) ==
    /\ cur' = [cur EXCEPT ![w] = NoMsg]
    /\ res' = [res EXCEPT ![w] = "none"]
    /\ outcome' = [outcome EXCEPT ![w] = NoOutcome]
    /\ trace' = [trace EXCEPT ![w] = <<>>]

\* execute(): mark_running decides whether the job is run at all.
EntryMarkRunning(w) ==
    /\ pc[w] = "entry"
    /\ _parse_queue_message(cur[w].fields).err = "none"
    /\ \E now \in Times :
         LET job == _parse_queue_message(cur[w].fields)
             out == mark_running(jobs, job.job_id, now)
         IN /\ StoreReturns(w, "mark_running", job.job_id, out)
            /\ Log(w, Tok("mark_running", out.ret))
            /\ IF out.ret
               THEN /\ pc' = [pc EXCEPT ![w] = "run"]
                    /\ UNCHANGED outcome
               ELSE /\ outcome' = [outcome EXCEPT ![w] =
                                     Outcome(FALSE, "skipped", "none", TRUE)]
                    /\ pc' = [pc EXCEPT ![w] =
                                AfterExecute(Outcome(FALSE, "skipped", "none",
                                                     TRUE))]
    /\ UNCHANGED <<queueVars, cur, todo, ret, res>>
    /\ UNCHANGED otherVars

\* mark_running raising is not caught by execute() nor by main(): the
\* worker process dies with the entry pending.
EntryMarkRunningRaises(w) ==
    /\ pc[w] = "entry"
    /\ _parse_queue_message(cur[w].fields).err = "none"
    /\ StoreRaises("mark_running", CurJob(w))
    /\ Log(w, <<"mark_running", "raise">>)
    /\ todo' = [todo EXCEPT ![w] = <<>>]
    /\ pc' = [pc EXCEPT ![w] = "crashed"]
    /\ UNCHANGED <<queueVars, cur, ret, res, outcome>>
    /\ UNCHANGED otherVars

\* _resolve_problem and run_problem_fn: the executor path.
Run(w) ==
    /\ pc[w] = "run"
    /\ \E r \in RunResults :
         /\ res' = [res EXCEPT ![w] = r]
         /\ Log(w, <<"run", r>>)
         /\ pc' = [pc EXCEPT ![w] = IF r = "raise" THEN "except" ELSE "persist"]
    /\ UNCHANGED <<queueVars, storeVars, cur, todo, ret, outcome,
                   faultsLeft>>
    /\ UNCHANGED otherVars

ErrorKindOf(r) == IF ResultErrorKind(r) = "none" THEN "internal"
                  ELSE ResultErrorKind(r)

\* if result.get("error"): mark_error with the result's error_kind.
PersistError(w) ==
    /\ pc[w] = "persist"
    /\ HasError(res[w])
    /\ \/ \E now \in Times :
            LET out == mark_error(jobs, CurJob(w), ResultError(res[w]), res[w],
                                  ErrorKindOf(res[w]), now)
                o == Outcome(TRUE, "error", ErrorKindOf(res[w]), TRUE)
            IN /\ StoreReturns(w, "mark_error", CurJob(w), out)
               /\ Log(w, Tok("mark_error", out.ret))
               /\ outcome' = [outcome EXCEPT ![w] = o]
               /\ pc' = [pc EXCEPT ![w] = AfterExecute(o)]
       \/ /\ StoreRaises("mark_error", CurJob(w))
          /\ Log(w, <<"mark_error", "raise">>)
          /\ pc' = [pc EXCEPT ![w] = "except"]
          /\ UNCHANGED outcome
    /\ UNCHANGED <<queueVars, cur, todo, ret, res>>
    /\ UNCHANGED otherVars

\* otherwise mark_done.
PersistDone(w) ==
    /\ pc[w] = "persist"
    /\ ~HasError(res[w])
    /\ \/ \E now \in Times :
            LET out == mark_done(jobs, CurJob(w), res[w], now)
                o == Outcome(TRUE, "done", "none", TRUE)
            IN /\ StoreReturns(w, "mark_done", CurJob(w), out)
               /\ Log(w, Tok("mark_done", out.ret))
               /\ outcome' = [outcome EXCEPT ![w] = o]
               /\ pc' = [pc EXCEPT ![w] = AfterExecute(o)]
       \/ /\ StoreRaises("mark_done", CurJob(w))
          /\ Log(w, <<"mark_done", "raise">>)
          /\ pc' = [pc EXCEPT ![w] = "except"]
          /\ UNCHANGED outcome
    /\ UNCHANGED <<queueVars, cur, todo, ret, res>>
    /\ UNCHANGED otherVars

\* Faulty variant: the except branch always asks for the ack.
HandlerOutcome_always_ack(raised) ==
    Outcome(TRUE, "error", "internal", TRUE)

\* The outcome the except branch returns: should_ack is False only when its
\* mark_error call raised.
HandlerOutcome(raised) == Outcome(TRUE, "error", "internal", ~raised)

\* except Exception: mark_error(kind=internal), then the outcome above.
ExceptHandler(w) ==
    /\ pc[w] = "except"
    /\ \/ \E now \in Times :
            LET out == mark_error(jobs, CurJob(w), "Worker error", NULL,
                                  "internal", now)
                o == HandlerOutcome(FALSE)
            IN /\ StoreReturns(w, "mark_error", CurJob(w), out)
               /\ Log(w, Tok("handler_mark_error", out.ret))
               /\ outcome' = [outcome EXCEPT ![w] = o]
               /\ pc' = [pc EXCEPT ![w] = AfterExecute(o)]
       \/ LET o == HandlerOutcome(TRUE)
          IN /\ StoreRaises("mark_error", CurJob(w))
             /\ Log(w, <<"handler_mark_error", "raise">>)
             /\ outcome' = [outcome EXCEPT ![w] = o]
             /\ pc' = [pc EXCEPT ![w] = AfterExecute(o)]
    /\ UNCHANGED <<queueVars, cur, todo, ret, res>>
    /\ UNCHANGED otherVars

\* ack_and_delete, first command: XACK takes the entry off the pending list.
Xack(w) ==
    /\ pc[w] = "ack"
    /\ pel' = [pel EXCEPT ![cur[w].id] = "none"]
    /\ idle' = idle \ {cur[w].id}
    /\ Log(w, <<"xack", "ok">>)
    /\ pc' = [pc EXCEPT ![w] = "xdel"]
    /\ UNCHANGED <<jobs, added, live, lastDelivered, cur, todo, ret, res,
                   outcome, faultsLeft,
                   call, termOk, runOk, finalBy>>
    /\ UNCHANGED otherVars

\* XACK raising: the exception is logged by process_entry and swallowed.
XackRaises(w) ==
    /\ pc[w] = "ack"
    /\ faultsLeft > 0
    /\ faultsLeft' = faultsLeft - 1
    /\ Log(w, <<"xack", "raise">>)
    /\ pc' = [pc EXCEPT ![w] = "done"]
    /\ UNCHANGED <<queueVars, storeVars, cur, todo, ret, res, outcome>>
    /\ UNCHANGED otherVars

\* ack_and_delete, second command: XDEL removes the entry from the stream.
Xdel(w) ==
    /\ pc[w] = "xdel"
    /\ live' = live \ {cur[w].id}
    /\ Log(w, <<"xdel", "ok">>)
    /\ pc' = [pc EXCEPT ![w] = "done"]
    /\ UNCHANGED <<jobs, added, pel, idle, lastDelivered, cur, todo, ret, res,
                   outcome, faultsLeft,
                   call, termOk, runOk, finalBy>>
    /\ UNCHANGED otherVars

XdelRaises(w) ==
    /\ pc[w] = "xdel"
    /\ faultsLeft > 0
    /\ faultsLeft' = faultsLeft - 1
    /\ Log(w, <<"xdel", "raise">>)
    /\ pc' = [pc EXCEPT ![w] = "done"]
    /\ UNCHANGED <<queueVars, storeVars, cur, todo, ret, res, outcome>>
    /\ UNCHANGED otherVars

\* process_entry returns to the loop that called it: the for loop over the
\* reclaimed entries, followed by queue.read, or the top of the while loop.
Return(w) ==
    /\ pc[w] = "done"
    /\ ClearLocals(w)
    /\ pc' = [pc EXCEPT ![w] =
                IF ret[w] = "loop" THEN "loop"
                ELSE IF todo[w] # <<>> THEN "drain" ELSE "read"]
    /\ UNCHANGED <<queueVars, storeVars, todo, ret, faultsLeft>>
    /\ UNCHANGED otherVars

\* The worker process is killed while it holds entries; what it had claimed
\* stays pending. (A worker killed while it holds nothing restarts into the
\* state it was in, so that case adds no behaviour.) cur, outcome and trace
\* keep the record of what the process was doing when it died, until the
\* next process starts.
Crash(w) ==
    /\ pc[w] # "crashed"
    /\ cur[w] # NoMsg \/ todo[w] # <<>>
    /\ faultsLeft > 0
    /\ faultsLeft' = faultsLeft - 1
    /\ todo' = [todo EXCEPT ![w] = <<>>]
    /\ pc' = [pc EXCEPT ![w] = "crashed"]
    /\ UNCHANGED <<queueVars, storeVars, cur, ret, res, outcome, trace>>
    /\ UNCHANGED otherVars

\* The supervisor starts the worker again under the same consumer name.
Restart(w) ==
    /\ pc[w] = "crashed"
    /\ ClearLocals(w)
    /\ pc' = [pc EXCEPT ![w] = "loop"]
    /\ UNCHANGED <<queueVars, storeVars, todo, ret, faultsLeft>>
    /\ UNCHANGED otherVars

\* ---------------------------------------------------------- specification
Next ==
    \/ \E j \in SubmitIds, k \in SubmitKinds : SubmitAccepted(j, k)
    \/ \E j \in SubmitIds : SubmitEnqueueFails(j)
    \/ \E f \in ForeignFields : ForeignWrite(f)
    \/ \E m \in MsgIds : BecomeIdle(m)
    \/ \E w \in Workers : Autoclaim(w)
    \/ \E w \in Workers : SkipReclaim(w)
    \/ \E w \in Workers : DrainNext(w)
    \/ \E w \in Workers : ReadEntry(w)
    \/ \E w \in Workers : ReadNone(w)
    \/ \E w \in Workers : EntryNoJobId(w)
    \/ \E w \in Workers : EntryInvalid(w)
    \/ \E w \in Workers : EntryMarkRunning(w)
    \/ \E w \in Workers : EntryMarkRunningRaises(w)
    \/ \E w \in Workers : Run(w)
    \/ \E w \in Workers : PersistError(w)
    \/ \E w \in Workers : PersistDone(w)
    \/ \E w \in Workers : ExceptHandler(w)
    \/ \E w \in Workers : Xack(w)
    \/ \E w \in Workers : XackRaises(w)
    \/ \E w \in Workers : Xdel(w)
    \/ \E w \in Workers : XdelRaises(w)
    \/ \E w \in Workers : Return(w)
    \/ \E w \in Workers : Crash(w)
    \/ \E w \in Workers : Restart(w)

Spec == Init /\ [][Next]_vars


\* ------------------------------------------------- direct store clients
\* The result store driven by arbitrary callers: any number of workers and
\* submitters issuing create_job, mark_running, mark_done and mark_error in
\* any order, on any job id. `call` keeps the call with the row before and
\* after it.
ClientResults == {"r1", "r2"}
ClientErrorKinds == {"user", "internal"}

ClientCall(op, j, out) ==
    /\ jobs' = out.rows
    /\ call' = [op |-> op, job |-> j, ret |-> out.ret,
                pre |-> RowOf(jobs, j), post |-> RowOf(out.rows, j)]
    /\ termOk' = IF out.ret /\ op \in {"mark_done", "mark_error"}
                 THEN [termOk EXCEPT ![j] = @ + 1] ELSE termOk
    /\ runOk' = IF out.ret /\ op = "mark_running"
                THEN [runOk EXCEPT ![j] = @ + 1] ELSE runOk
    /\ finalBy' = IF Finalises(op, out) THEN [finalBy EXCEPT ![j] = "client"]
                  ELSE finalBy
    /\ UNCHANGED <<queueVars, pc, cur, todo, ret, res, outcome, trace,
                   faultsLeft>>
    /\ UNCHANGED otherVars

ClientCreate(j) ==
    /\ ~HasRow(jobs, j)
    /\ jobs' = create_job(jobs, j)
    /\ UNCHANGED <<queueVars, pc, cur, todo, ret, res, outcome, trace,
                   faultsLeft, call, termOk, runOk, finalBy>>
    /\ UNCHANGED otherVars

ClientMarkRunning(j) ==
    /\ IF HasRow(jobs, j) /\ jobs[j].status \in {"queued", "running"}
       THEN jobs[j].attempts < MaxAttempts ELSE TRUE
    /\ \E now \in Times :
         ClientCall("mark_running", j, mark_running(jobs, j, now))

ClientMarkDone(j, r) ==
    \E now \in Times : ClientCall("mark_done", j, mark_done(jobs, j, r, now))

ClientMarkError(j, r, k) ==
    \E now \in Times :
        ClientCall("mark_error", j, mark_error(jobs, j, "e", r, k, now))

NextStore ==
    \/ \E j \in JobIds : ClientCreate(j)
    \/ \E j \in JobIds : ClientMarkRunning(j)
    \/ \E j \in JobIds, r \in ClientResults : ClientMarkDone(j, r)
    \/ \E j \in JobIds, r \in ClientResults \cup {NULL},
          k \in ClientErrorKinds : ClientMarkError(j, r, k)

SpecStore == Init /\ [][NextStore]_vars

\* C1: for every job, at most one mark_done/mark_error call ever returns
\* true, whatever calls are issued and in whatever order.
C1_AtMostOneTerminalTransition ==
    \A j \in JobIds : termOk[j] <= 1

\* A terminal mutator was refused on a job that had already been finalised.
C1_Witness ==
    /\ call.op \in {"mark_done", "mark_error"}
    /\ call.pre.status \in Terminal
    /\ ~call.ret
    /\ termOk[call.job] = 1

\* C5: a mutator called on a job in done or error returns false and leaves
\* every column of the row as it was.
C5_TerminalRowImmutable ==
    (call.op # "none" /\ call.pre.status \in Terminal)
        => (~call.ret /\ call.post = call.pre)

\* mark_running was called on a done job (a late reclaim).
C5_Witness ==
    /\ call.op = "mark_running"
    /\ call.pre.status = "done"
    /\ call.post.result_json # NULL

StatusEdges ==
    { <<"queued", "running">>, <<"running", "running">>,
      <<"running", "done">>, <<"running", "error">>, <<"queued", "error">> }

\* C6: a call that returns true moves the row along one of the five edges;
\* a call that returns false leaves the status; mark_done on a queued job
\* returns false; nothing leaves done or error.
C6_StatusEdges ==
    call.op # "none" =>
        /\ call.ret => <<call.pre.status, call.post.status>> \in StatusEdges
        /\ ~call.ret => call.post.status = call.pre.status
        /\ (call.op = "mark_done" /\ call.pre.status = "queued") => ~call.ret
        /\ call.pre.status \in Terminal => call.post.status = call.pre.status

\* mark_done was called on a queued job.
C6_Witness ==
    /\ call.op = "mark_done"
    /\ call.pre.status = "queued"
    /\ call.post.status = "queued"

\* C7: attempts equals the number of mark_running calls that returned true;
\* a mark_running that returns false leaves attempts as it was.
C7_AttemptsCountClaims ==
    /\ \A j \in JobIds :
         IF HasRow(jobs, j) THEN jobs[j].attempts = runOk[j] ELSE runOk[j] = 0
    /\ (call.op = "mark_running" /\ ~call.ret) => call.post = call.pre

\* A running job was claimed again and a later claim of it, once it was
\* terminal, was refused.
C7_Witness ==
    /\ call.op = "mark_running"
    /\ ~call.ret
    /\ call.pre.status \in Terminal
    /\ call.pre.attempts = 2
    /\ runOk[call.job] = 2

\* ------------------------------------------------- dispatch loop properties
\* trace[w] lists, in order, the calls worker w has made for the entry in
\* cur[w].
Has(w, t) == \E i \in DOMAIN trace[w] : trace[w][i] = t
AckTokens == { <<"xack", "ok">>, <<"xack", "raise">>,
               <<"xdel", "ok">>, <<"xdel", "raise">> }
AckCalled(w) == Has(w, <<"xack", "ok">>) \/ Has(w, <<"xack", "raise">>)
OnlyAcksAfterFirst(w) ==
    \A i \in DOMAIN trace[w] : i > 1 => trace[w][i] \in AckTokens
EntryJob(m) == Strip(Get(added[m], "job_id", <<>>))

\* C2: whenever a worker is about to call ack_and_delete for an entry that
\* carries a job_id, the row of that job is done or error.
C2_AckOnlyAfterVerdict ==
    \A w \in Workers :
        (pc[w] = "ack" /\ CurJob(w) # <<>>)
            => RowOf(jobs, CurJob(w)).status \in Terminal

\* C3, the condition its liveness needs: an entry of a finalised job that
\* was delivered and is still in the stream is on the pending list, where
\* autoclaim finds it, or is between the XACK and the XDEL of the worker
\* deleting it. An entry outside both is never read nor claimed again.
C3_FinalisedEntryStaysRecoverable ==
    \A m \in live :
        (m <= lastDelivered /\ EntryJob(m) # <<>>
            /\ RowOf(jobs, EntryJob(m)).status \in Terminal)
        => \/ pel[m] # "none"
           \/ \E w \in Workers : pc[w] = "xdel" /\ cur[w].id = m

\* Workers a and b have both processed the same entry: a claimed the job
\* (its mark_running returned true) and then finished or was killed; b got
\* the entry from autoclaim and finished.
ReclaimRace(a, b) ==
    /\ a # b
    /\ cur[a] # NoMsg
    /\ cur[a].id = cur[b].id
    /\ pc[a] \in {"done", "crashed"}
    /\ pc[b] = "done"
    /\ ret[b] = "drain"
    /\ trace[a] # <<>>
    /\ trace[a][1] = <<"mark_running", "true">>

Persisted(w) ==
    \/ Has(w, <<"mark_done", "true">>)
    \/ Has(w, <<"mark_error", "true">>)
    \/ Has(w, <<"handler_mark_error", "true">>)

\* C4 as stated: in a reclaim race exactly one of the two workers persists
\* the terminal result, the other's terminal mutators return false, and
\* attempts is 2.
C4_ReclaimRaceAttemptsTwo ==
    \A a, b \in Workers :
        ReclaimRace(a, b) =>
            /\ termOk[CurJob(b)] = 1
            /\ finalBy[CurJob(b)] \in {a, b}
            /\ \A w \in {a, b} : w # finalBy[CurJob(b)] => ~Persisted(w)
            /\ jobs[CurJob(b)].attempts = 2

\* C4, amended: in a reclaim race at most one terminal mutator call ever
\* returns true, and one of the two workers made it once either of them
\* leaves execute() with should_ack; the other worker's terminal mutators
\* did not return true; attempts equals the number of mark_running calls
\* that returned true, which is at least 2 when the reclaiming worker's
\* mark_running returned true and at least 1 when it returned false.
C4_ReclaimRace ==
    \A a, b \in Workers :
        ReclaimRace(a, b) =>
            /\ termOk[CurJob(b)] <= 1
            /\ (outcome[b].should_ack \/ (pc[a] = "done" /\ outcome[a].should_ack))
                  => /\ termOk[CurJob(b)] = 1
                     /\ finalBy[CurJob(b)] \in {a, b}
                     /\ jobs[CurJob(b)].status \in Terminal
            /\ \A w \in {a, b} : w # finalBy[CurJob(b)] => ~Persisted(w)
            /\ jobs[CurJob(b)].attempts = runOk[CurJob(b)]
            /\ jobs[CurJob(b)].attempts >=
                  (IF trace[b][1] = <<"mark_running", "true">> THEN 2 ELSE 1)

\* The first worker was killed mid-run, the second reclaimed the entry, ran
\* the job and persisted done; attempts is 2.
C4_Witness ==
    \E a, b \in Workers :
        /\ ReclaimRace(a, b)
        /\ pc[a] = "crashed"
        /\ trace[a] = << <<"mark_running", "true">> >>
        /\ Has(b, <<"mark_running", "true">>)
        /\ Has(b, <<"mark_done", "true">>)
        /\ finalBy[CurJob(b)] = b
        /\ jobs[CurJob(b)].attempts = 2

HandlerCalled(w) ==
    \/ Has(w, <<"handler_mark_error", "true">>)
    \/ Has(w, <<"handler_mark_error", "false">>)
    \/ Has(w, <<"handler_mark_error", "raise">>)

ExecutorPathRaised(w) ==
    \/ Has(w, <<"run", "raise">>)
    \/ Has(w, <<"mark_done", "raise">>)
    \/ Has(w, <<"mark_error", "raise">>)

\* C8 as stated: after the executor path raised, the worker calls
\* ack_and_delete only if the handler's mark_error persisted the error.
C8_AckOnlyIfErrorPersisted ==
    \A w \in Workers :
        (HandlerCalled(w) /\ pc[w] = "ack")
            => Has(w, <<"handler_mark_error", "true">>)

\* C8, amended: when the executor path raises the worker calls
\* mark_error(kind=internal); it acks the entry whenever that call returns,
\* true (the row is then error/internal) or false (the job is already
\* terminal), and skips the ack only when the call itself raises, in which
\* case the entry stays pending for as long as the job is not terminal.
C8_HandlerAck ==
    \A w \in Workers :
        /\ (ExecutorPathRaised(w) /\ cur[w] # NoMsg
              /\ _parse_queue_message(cur[w].fields).err = "none"
              /\ pc[w] \notin {"except", "crashed"})
              => HandlerCalled(w)
        /\ HandlerCalled(w) => ExecutorPathRaised(w)
        /\ Has(w, <<"handler_mark_error", "raise">>)
              => /\ outcome[w] = Outcome(TRUE, "error", "internal", FALSE)
                 /\ pc[w] \in {"done", "crashed"}
                 /\ \A t \in AckTokens : ~Has(w, t)
                 /\ jobs[CurJob(w)].status \notin Terminal
                       => (cur[w].id \in live /\ pel[cur[w].id] # "none")
        /\ (Has(w, <<"handler_mark_error", "true">>)
              \/ Has(w, <<"handler_mark_error", "false">>))
              => /\ outcome[w] = Outcome(TRUE, "error", "internal", TRUE)
                 /\ pc[w] \in {"ack", "xdel", "done", "crashed"}
                 /\ pc[w] \in {"xdel", "done"} => AckCalled(w)
                 /\ jobs[CurJob(w)].status \in Terminal
        /\ Has(w, <<"handler_mark_error", "true">>)
              => /\ jobs[CurJob(w)].status = "error"
                 /\ jobs[CurJob(w)].error_kind = "internal"

\* The executor raised after another worker had finalised the job: the
\* handler's mark_error returned false and the entry was acked and deleted.
C8_Witness ==
    \E w \in Workers :
        /\ Has(w, <<"run", "raise">>)
        /\ Has(w, <<"handler_mark_error", "false">>)
        /\ Has(w, <<"xdel", "ok">>)
        /\ jobs[CurJob(w)].status = "done"

\* C9: when mark_running returns false for the entry's job, the worker makes
\* no executor call and no further store call for that entry, the job is
\* terminal, and the entry goes to ack_and_delete.
C9_SkipTerminalJob ==
    \A w \in Workers :
        (trace[w] # <<>> /\ trace[w][1] = <<"mark_running", "false">>)
            => /\ OnlyAcksAfterFirst(w)
               /\ res[w] = "none"
               /\ outcome[w] = Outcome(FALSE, "skipped", "none", TRUE)
               /\ pc[w] \in {"ack", "xdel", "done", "crashed"}
               /\ pc[w] \in {"xdel", "done"} => AckCalled(w)
               /\ jobs[CurJob(w)].status \in Terminal
               /\ jobs[CurJob(w)].attempts = runOk[CurJob(w)]
               /\ termOk[CurJob(w)] = 1

\* A worker reclaimed the entry of a job that was done, skipped it and
\* deleted the entry.
C9_Witness ==
    \E w \in Workers :
        /\ trace[w] = << <<"mark_running", "false">>, <<"xack", "ok">>,
                        <<"xdel", "ok">> >>
        /\ jobs[CurJob(w)].status = "done"
        /\ cur[w].id \notin live

\* What makes an entry invalid for the worker: no job_id, no problem key,
\* a kind other than run/submit, or a created_at that is not an integer.
InvalidEntry(f) ==
    \/ Strip(Get(f, "job_id", <<>>)) = <<>>
    \/ /\ Strip(Get(f, "problem_key", <<>>)) = <<>>
       /\ Strip(Get(f, "problem_id", <<>>)) = <<>>
    \/ Strip(Get(f, "kind", KindSubmit)) \notin {KindRun, KindSubmit}
    \/ /\ Strip(Get(f, "created_at", <<>>)) # <<>>
       /\ ~IsDigit(Strip(Get(f, "created_at", <<>>)))

\* C10: for an invalid entry the worker never calls mark_running nor the
\* executor. Without a job_id it makes no store call and goes to
\* ack_and_delete; with a job_id its one store call is
\* mark_error(kind=internal) for that job, followed by ack_and_delete.
C10_InvalidEntryNeverExecuted ==
    \A w \in Workers :
        (cur[w] # NoMsg /\ InvalidEntry(cur[w].fields) /\ trace[w] # <<>>)
            => /\ OnlyAcksAfterFirst(w)
               /\ res[w] = "none"
               /\ outcome[w] = NoOutcome
               /\ pc[w] \in {"ack", "xdel", "done", "crashed"}
               /\ pc[w] \in {"xdel", "done"} => AckCalled(w)
               /\ IF CurJob(w) = <<>>
                  THEN trace[w][1] = <<"parse_error", "no_job_id">>
                  ELSE /\ trace[w][1][1] = "mark_error"
                       /\ trace[w][1][2] = "true"
                             => /\ jobs[CurJob(w)].status = "error"
                                /\ jobs[CurJob(w)].error_kind = "internal"
                                /\ jobs[CurJob(w)].attempts = 0

\* One worker has deleted an entry without a job_id, the other has recorded
\* the internal error of an entry with a bad created_at and deleted it.
C10_Witness ==
    \E w, v \in Workers :
        /\ cur[w] # NoMsg
        /\ cur[v] # NoMsg
        /\ CurJob(v) = <<>>
        /\ trace[v] = << <<"parse_error", "no_job_id">>, <<"xack", "ok">>,
                        <<"xdel", "ok">> >>
        /\ Get(cur[w].fields, "created_at", <<>>) = <<"x">>
        /\ trace[w] = << <<"mark_error", "true">>, <<"xack", "ok">>,
                        <<"xdel", "ok">> >>
        /\ jobs[CurJob(w)].error_kind = "internal"
        /\ live = {}

\* C11: once the executor has returned a result for a claimed job, the
\* worker's next store call is mark_error exactly when the result's error
\* field is a non-empty string, with the result's error_kind or internal
\* when it has none, and mark_done otherwise; when that call returns true
\* the row holds the verdict and the result; no ack_and_delete command is
\* sent before that call.
C11_PersistByErrorField ==
    \A w \in Workers :
        (res[w] \in RunResults \ {"raise"} /\ Len(trace[w]) >= 3) =>
            /\ trace[w][2] = <<"run", res[w]>>
            /\ trace[w][3][1] =
                  (IF res[w] \in {"err_user", "err_nokind"} THEN "mark_error"
                   ELSE "mark_done")
            /\ \A i \in DOMAIN trace[w] : trace[w][i] \in AckTokens => i > 3
            /\ trace[w][3][2] # "raise" =>
                  outcome[w] =
                     (IF res[w] \in {"err_user", "err_nokind"}
                      THEN Outcome(TRUE, "error",
                                   IF res[w] = "err_user" THEN "user"
                                   ELSE "internal", TRUE)
                      ELSE Outcome(TRUE, "done", "none", TRUE))
            /\ trace[w][3][2] = "true" =>
                  /\ finalBy[CurJob(w)] = w
                  /\ jobs[CurJob(w)].result_json = res[w]
                  /\ jobs[CurJob(w)].status =
                        (IF res[w] \in {"err_user", "err_nokind"} THEN "error"
                         ELSE "done")
                  /\ jobs[CurJob(w)].error_kind =
                        (CASE res[w] = "err_user" -> "user"
                           [] res[w] = "err_nokind" -> "internal"
                           [] OTHER -> NULL)

\* A result with an error and no error_kind was persisted as an internal
\* error and the entry was then acked and deleted.
C11_Witness ==
    \E w \in Workers :
        /\ trace[w] = << <<"mark_running", "true">>, <<"run", "err_nokind">>,
                        <<"mark_error", "true">>, <<"xack", "ok">>,
                        <<"xdel", "ok">> >>
        /\ jobs[CurJob(w)].status = "error"
        /\ jobs[CurJob(w)].error_kind = "internal"

\* ----------------------------------------------------- RedisQueue.enqueue
\* A payload is a dict whose values need not be strings: a value carries
\* its Python type and, in v, the text str() gives for it.
PyNone == [t |-> "none", v |-> <<>>]
PyStr(s) == [t |-> "str", v |-> s]
PyInt(s) == [t |-> "int", v |-> s]
PyBool(s) == [t |-> "bool", v |-> s]

PGet(p, k, d) == IF k \in DOMAIN p THEN p[k] ELSE d

\* Faulty variant: a blank string passes.
_require_non_empty_str_accepts_blank(payload, key) ==
    IF PGet(payload, key, PyNone).t # "str"
    THEN [ok |-> FALSE, v |-> <<>>]
    ELSE [ok |-> TRUE, v |-> Strip(PGet(payload, key, PyNone).v)]

_require_non_empty_str(payload, key) ==
    IF PGet(payload, key, PyNone).t # "str"
          \/ Strip(PGet(payload, key, PyNone).v) = <<>>
    THEN [ok |-> FALSE, v |-> <<>>]
    ELSE [ok |-> TRUE, v |-> Strip(PGet(payload, key, PyNone).v)]

_ALLOWED_KINDS == {KindRun, KindSubmit}

EnqueueRaise(e) == [err |-> e, fields |-> <<>>]

\* created_at: None gives "", an int that is not a bool gives str(int), a
\* str whose stripped text is all digits gives that text; anything else
\* raises.
CreatedAtField(payload) ==
    LET c == PGet(payload, "created_at", PyNone)
    IN CASE c.t = "none" -> [ok |-> TRUE, v |-> <<>>]
         [] c.t = "int" -> [ok |-> TRUE, v |-> c.v]
         [] c.t = "str" /\ IsDigit(Strip(c.v)) -> [ok |-> TRUE, v |-> Strip(c.v)]
         [] OTHER -> [ok |-> FALSE, v |-> <<>>]

\* enqueue up to the xadd: the error it raises, or the fields it writes.
enqueue(payload) ==
    LET job_id == _require_non_empty_str(payload, "job_id")
        problem_id == _require_non_empty_str(payload, "problem_id")
        problem_key_raw == PGet(payload, "problem_key", PyStr(problem_id.v))
        profile == _require_non_empty_str(payload, "profile")
        kind == PGet(payload, "kind", PyStr(KindSubmit))
        code == PGet(payload, "code", PyStr(<<>>))
        created_at == CreatedAtField(payload)
    IN IF ~job_id.ok THEN EnqueueRaise("job_id")
       ELSE IF ~problem_id.ok THEN EnqueueRaise("problem_id")
       ELSE IF problem_key_raw.t # "str" \/ Strip(problem_key_raw.v) = <<>>
            THEN EnqueueRaise("problem_key")
       ELSE IF ~profile.ok THEN EnqueueRaise("profile")
       ELSE IF kind.t # "str" \/ kind.v \notin _ALLOWED_KINDS
            THEN EnqueueRaise("kind")
       ELSE IF code.t # "str" THEN EnqueueRaise("code")
       ELSE IF ~created_at.ok THEN EnqueueRaise("created_at")
       ELSE [err |-> "none",
             fields |-> [job_id |-> job_id.v, problem_id |-> problem_id.v,
                         problem_key |-> Strip(problem_key_raw.v),
                         profile |-> profile.v, kind |-> kind.v,
                         code |-> code.v, created_at |-> created_at.v]]

\* The payloads enqueue is called with: the one submit() builds, and that
\* payload with one key removed or one value replaced.
BasePayload ==
    [job_id |-> PyStr(<<"a">>), problem_id |-> PyStr(<<"p">>),
     problem_key |-> PyStr(<<"p">>), profile |-> PyStr(<<"l">>),
     kind |-> PyStr(KindRun), code |-> PyStr(<<"c">>),
     created_at |-> PyInt(<<"7">>)]

PayloadValues ==
    { PyNone, PyStr(<<>>), PyStr(<<" ">>), PyStr(<<" ", "b", "\n">>),
      PyStr(<<"7">>), PyStr(<<" ", "7">>), PyStr(KindSubmit),
      PyStr(<<" ">> \o KindRun), PyInt(<<"-", "1">>), PyBool(<<"T">>) }

Payloads ==
    {BasePayload}
      \cup { [k \in DOMAIN BasePayload \ {x} |-> BasePayload[k]] :
                x \in DOMAIN BasePayload }
      \cup { [BasePayload EXCEPT ![x] = v] :
                x \in DOMAIN BasePayload, v \in PayloadValues }

\* enqueue validated the payload and issued XADD.
EnqueueWrites(p) ==
    /\ enqueue(p).err = "none"
    /\ Len(added) < MaxEntries
    /\ XADD(enqueue(p).fields)
    /\ call' = [op |-> "enqueue", payload |-> p, raised |-> FALSE,
                pre |-> added, post |-> Append(added, enqueue(p).fields)]
    /\ UNCHANGED <<jobs, pel, idle, lastDelivered, pc, cur, todo, ret, res,
                   outcome, trace, faultsLeft, termOk, runOk, finalBy>>
    /\ UNCHANGED otherVars

\* enqueue raised ValueError on the payload: no command was sent.
EnqueueRejects(p) ==
    /\ enqueue(p).err # "none"
    /\ call' = [op |-> "enqueue", payload |-> p, raised |-> TRUE,
                pre |-> added, post |-> added]
    /\ UNCHANGED <<jobs, queueVars, pc, cur, todo, ret, res, outcome, trace,
                   faultsLeft, termOk, runOk, finalBy>>
    /\ UNCHANGED otherVars

NextEnqueue ==
    \/ \E p \in Payloads : EnqueueWrites(p)
    \/ \E p \in Payloads : EnqueueRejects(p)

SpecEnqueue == Init /\ [][NextEnqueue]_vars

BlankField(p, k) ==
    k \notin DOMAIN p \/ p[k].t # "str" \/ Strip(p[k].v) = <<>>

\* The payloads enqueue must refuse, stated on the payload alone.
InvalidPayload(p) ==
    \/ BlankField(p, "job_id")
    \/ BlankField(p, "problem_id")
    \/ BlankField(p, "profile")
    \/ "problem_key" \in DOMAIN p /\ BlankField(p, "problem_key")
    \/ "kind" \in DOMAIN p
          /\ (p.kind.t # "str" \/ p.kind.v \notin {KindRun, KindSubmit})
    \/ "code" \in DOMAIN p /\ p.code.t # "str"
    \/ "created_at" \in DOMAIN p
          /\ p.created_at.t \notin {"none", "int"}
          /\ ~(p.created_at.t = "str" /\ IsDigit(Strip(p.created_at.v)))

\* C12: every entry enqueue has written has a non-empty job_id, problem_id
\* and profile and a kind that is run or submit; a call with an invalid
\* payload raises and leaves the stream as it was, and only such calls
\* raise.
C12_EnqueueValidates ==
    /\ \A i \in DOMAIN added :
          /\ {"job_id", "problem_id", "profile", "kind"} \subseteq
                DOMAIN added[i]
          /\ added[i].job_id # <<>>
          /\ added[i].problem_id # <<>>
          /\ added[i].profile # <<>>
          /\ added[i].kind \in {KindRun, KindSubmit}
    /\ call.op = "enqueue" =>
          /\ call.raised <=> InvalidPayload(call.payload)
          /\ call.raised => call.post = call.pre
          /\ live = DOMAIN added

\* A payload whose job_id is blank was refused after an entry had been
\* written, and the stream still holds just that entry.
C12_Witness ==
    /\ call.op = "enqueue"
    /\ call.raised
    /\ PGet(call.payload, "job_id", PyNone) = PyStr(<<" ">>)
    /\ Len(added) = 1
    /\ call.post = added

\* ------------------------------------------------ SubmissionService.submit
\* submit() step by step, for submitters running side by side (the API may
\* be multi-process). sub[s] holds the call in progress: the backlog value
\* it read (-1 when it read none), the job id it generated, whether it
\* inserted the row and wrote the entry, its response; log keeps the calls
\* that have returned.
MaxSubmits == 2
Caps == 0..MaxEntries
ProblemOutcomes == {"ok", "not_found", "invalid"}

\* RedisQueue.backlog: pending + max(lag, 0) of the group in XINFO GROUPS.
\* The group exists (the worker creates it at start-up) and no undelivered
\* entry is ever deleted, so Redis reports lag as an integer.
backlog ==
    LET pending == Cardinality({m \in MsgIds : pel[m] # "none"})
        lag == Cardinality(Undelivered)
    IN pending + (IF lag < 0 THEN 0 ELSE lag)

SubStep(s, r) == sub' = [sub EXCEPT ![s] = r]

\* Faulty variant: the reject threshold is one above the cap.
QueueFull_above_cap(stream_backlog) == stream_backlog > queue_maxlen

\* if stream_backlog >= self.queue_maxlen: raise QueueFullError
QueueFull(stream_backlog) == stream_backlog >= queue_maxlen

\* problem = self._resolve_problem(problem_key)
SubmitResolve(s) ==
    /\ sub[s].pc = "idle"
    /\ Len(sub[s].log) < MaxSubmits
    /\ \E o \in ProblemOutcomes :
         IF o = "ok"
         THEN SubStep(s, [sub[s] EXCEPT
                            !.pc = IF queue_maxlen > 0 THEN "backlog"
                                   ELSE "create"])
         ELSE SubStep(s, [sub[s] EXCEPT !.pc = "returned", !.resp = o])
    /\ UNCHANGED <<coreVars, queue_maxlen, warmVars, isoVars, moreVars>>

\* The backlog read and the cap test.
SubmitBacklog(s) ==
    /\ sub[s].pc = "backlog"
    /\ SubStep(s, IF QueueFull(backlog)
                  THEN [sub[s] EXCEPT !.seen = backlog, !.pc = "returned",
                                      !.resp = "full"]
                  ELSE [sub[s] EXCEPT !.seen = backlog, !.pc = "create"])
    /\ UNCHANGED <<coreVars, queue_maxlen, warmVars, isoVars, moreVars>>

\* queue.backlog raising: QueueUnavailableError.
SubmitBacklogRaises(s) ==
    /\ sub[s].pc = "backlog"
    /\ SubStep(s, [sub[s] EXCEPT !.pc = "returned", !.resp = "unavailable"])
    /\ UNCHANGED <<coreVars, queue_maxlen, warmVars, isoVars, moreVars>>

\* job_id_factory() and results.create_job.
SubmitCreate(s) ==
    /\ sub[s].pc = "create"
    /\ \E j \in JobIds :
         /\ ~HasRow(jobs, j)
         /\ jobs' = create_job(jobs, j)
         /\ SubStep(s, [sub[s] EXCEPT !.job = j, !.row = TRUE,
                                      !.pc = "enqueue"])
    /\ UNCHANGED <<queueVars, pc, cur, todo, ret, res, outcome, trace,
                   faultsLeft, call, termOk, runOk, finalBy, queue_maxlen,
                   warmVars, isoVars, moreVars>>

\* queue.enqueue succeeding: SubmissionAccepted(status="queued").
SubmitEnqueue(s) ==
    /\ sub[s].pc = "enqueue"
    /\ Len(added) < MaxEntries
    /\ XADD(EnqueuedFields(sub[s].job, KindSubmit))
    /\ SubStep(s, [sub[s] EXCEPT !.entry = TRUE, !.pc = "returned",
                                 !.resp = "accepted"])
    /\ UNCHANGED <<jobs, pel, idle, lastDelivered, pc, cur, todo, ret, res,
                   outcome, trace, faultsLeft, call, termOk, runOk, finalBy,
                   queue_maxlen, warmVars, isoVars, moreVars>>

\* queue.enqueue raising: on to _persist_enqueue_failure.
SubmitEnqueueRaises(s) ==
    /\ sub[s].pc = "enqueue"
    /\ SubStep(s, [sub[s] EXCEPT !.pc = "persist_failure"])
    /\ UNCHANGED <<coreVars, queue_maxlen, warmVars, isoVars, moreVars>>

\* _persist_enqueue_failure: mark_error(kind=internal) returned; submit
\* raises QueueUnavailableError.
SubmitPersistFailure(s) ==
    /\ sub[s].pc = "persist_failure"
    /\ \E now \in Times :
         StoreReturns(s, "mark_error", sub[s].job,
                      mark_error(jobs, sub[s].job, "Failed to enqueue job",
                                 NULL, "internal", now))
    /\ SubStep(s, [sub[s] EXCEPT !.pc = "returned", !.resp = "unavailable"])
    /\ UNCHANGED <<queueVars, pc, cur, todo, ret, res, outcome, trace,
                   queue_maxlen, warmVars, isoVars, moreVars>>

\* _persist_enqueue_failure: mark_error raised; the exception is logged and
\* swallowed and submit raises QueueUnavailableError all the same.
SubmitPersistFailureRaises(s) ==
    /\ sub[s].pc = "persist_failure"
    /\ StoreRaises("mark_error", sub[s].job)
    /\ SubStep(s, [sub[s] EXCEPT !.pc = "returned", !.resp = "unavailable"])
    /\ UNCHANGED <<queueVars, pc, cur, todo, ret, res, outcome, trace,
                   queue_maxlen, warmVars, isoVars, moreVars>>

\* The call has returned or raised; the submitter is free for the next one.
SubmitReturn(s) ==
    /\ sub[s].pc = "returned"
    /\ SubStep(s, [NoSubmit EXCEPT
                     !.log = Append(sub[s].log,
                                    [job |-> sub[s].job, seen |-> sub[s].seen,
                                     resp |-> sub[s].resp, row |-> sub[s].row,
                                     entry |-> sub[s].entry])])
    /\ UNCHANGED <<coreVars, queue_maxlen, warmVars, isoVars, moreVars>>

InitSubmit ==
    /\ InitCore
    /\ InitMore
    /\ sub = [s \in Submitters |-> NoSubmit]
    /\ queue_maxlen \in Caps
    /\ warm = NoWarm
    /\ iso = NoIso

NextSubmit ==
    \/ \E s \in Submitters : SubmitResolve(s)
    \/ \E s \in Submitters : SubmitBacklog(s)
    \/ \E s \in Submitters : SubmitBacklogRaises(s)
    \/ \E s \in Submitters : SubmitCreate(s)
    \/ \E s \in Submitters : SubmitEnqueue(s)
    \/ \E s \in Submitters : SubmitEnqueueRaises(s)
    \/ \E s \in Submitters : SubmitPersistFailure(s)
    \/ \E s \in Submitters : SubmitPersistFailureRaises(s)
    \/ \E s \in Submitters : SubmitReturn(s)

SpecSubmit == InitSubmit /\ [][NextSubmit]_vars

\* Every submit call made so far: those that returned and those in progress.
SubmitCalls ==
    UNION { {sub[s].log[i] : i \in DOMAIN sub[s].log} : s \in Submitters }
      \cup { [job |-> sub[s].job, seen |-> sub[s].seen, resp |-> sub[s].resp,
              row |-> sub[s].row, entry |-> sub[s].entry] :
                s \in {x \in Submitters : sub[x].pc # "idle"} }

\* C13: with a positive cap a call that read a backlog at or above the cap
\* is rejected as queue-full, and only such calls are; a call rejected as
\* queue-full, or as unavailable because the backlog could not be read, has
\* generated no job id, inserted no row and written no entry, and every row
\* and entry there is belongs to some other call; with cap 0 no call reads
\* the backlog and none is rejected as queue-full.
C13_BacklogCap ==
    /\ \A c \in SubmitCalls :
          /\ c.resp = "full" <=> (c.seen # -1 /\ c.seen >= queue_maxlen)
          /\ c.seen # -1 => queue_maxlen > 0
          /\ (c.resp = "full" \/ (c.resp = "unavailable" /\ c.seen = -1
                                    /\ queue_maxlen > 0))
                => (c.job = <<>> /\ ~c.row /\ ~c.entry)
          /\ (queue_maxlen = 0 /\ c.resp = "accepted") => c.entry
    /\ {j \in JobIds : HasRow(jobs, j)} =
          {c.job : c \in {x \in SubmitCalls : x.row}}
    /\ {added[i].job_id : i \in DOMAIN added} =
          {c.job : c \in {x \in SubmitCalls : x.entry}}

\* With cap 1 and one entry waiting, a submit was rejected as queue-full
\* and the store still holds the one row of the accepted call.
C13_Witness ==
    /\ queue_maxlen = 1
    /\ \E s \in Submitters :
          /\ sub[s].resp = "full"
          /\ sub[s].seen = 1
    /\ Len(added) = 1
    /\ Cardinality({j \in JobIds : HasRow(jobs, j)}) = 1

\* C14: a submit call that inserted its row and then failed to enqueue
\* answers queue-unavailable and leaves the row in state error with
\* error_kind internal.
C14_FailedEnqueueLeavesError ==
    \A c \in SubmitCalls :
        (c.row /\ ~c.entry /\ c.resp # "none") =>
            /\ c.resp = "unavailable"
            /\ jobs[c.job].status = "error"
            /\ jobs[c.job].error_kind = "internal"

\* ------------------------------------------------------------------------
\* Warm-fork executor (warm_executor.py): one job from run_problem to its
\* classification.  The child's set-up and the harness run in the forked
\* child while the parent polls the pipes; output is counted in units.
\* ------------------------------------------------------------------------

\* Output the child may write, in units.
MaxWritten == 6
\* What the two pipes hold before a write blocks, in units.
PipeCapacity == 2
\* The capture cap of the parent (2 MiB in the source), in units.
_MAX_CHILD_OUTPUT_BYTES == 4

\* What the child's stdout holds when it exits 0: the harness's result list
\* with every case accepted, the harness's one-item list reporting an invalid
\* runner expression, JSON that is not a list of objects, or no JSON at all.
StdoutShapes == {"accepted", "invalid_runner", "other_json", "garbage"}

\* __init__ refuses enable_seccomp without enable_no_new_privs on Linux.
WarmFlags ==
    {f \in [enable_no_new_privs : BOOLEAN, enable_seccomp : BOOLEAN,
            seccomp_fail_closed : BOOLEAN, pidfd : BOOLEAN,
            deny_filesystem : BOOLEAN] :
        f.enable_seccomp => f.enable_no_new_privs}

WarmStart(f) ==
    [NoWarm EXCEPT !.pc = "start",
                   !.enable_no_new_privs = f.enable_no_new_privs,
                   !.enable_seccomp = f.enable_seccomp,
                   !.seccomp_fail_closed = f.seccomp_fail_closed,
                   !.pidfd = f.pidfd,
                   !.deny_filesystem = f.deny_filesystem]

\* The deny lists, some names of each.
_SECCOMP_DENY_SYSCALLS == {"socket", "connect", "execve", "ptrace"}
_SECCOMP_DENY_FILE_OPEN_SYSCALLS == {"open", "openat"}
_SECCOMP_DENY_FILE_METADATA_SYSCALLS == {"stat", "access"}
\* Names seccomp_syscall_resolve_name may not know on the running kernel
\* (the 64-bit ARM kernel has no open).
Unresolvable == {{}, {"open"}}

\* Faulty variant: the file rules are left out.
_apply_seccomp_filter_no_file_rules(x, unresolved) ==
    _SECCOMP_DENY_SYSCALLS \ unresolved

\* _apply_seccomp_filter on Linux when it gets as far as seccomp_load: a
\* rule for every name of the lists that resolves, the others skipped.
_apply_seccomp_filter(x, unresolved) ==
    (_SECCOMP_DENY_SYSCALLS
     \cup (IF x.deny_filesystem
           THEN _SECCOMP_DENY_FILE_OPEN_SYSCALLS
                \cup _SECCOMP_DENY_FILE_METADATA_SYSCALLS
           ELSE {}))
    \ unresolved

\* Faulty variant: the seccomp filter is installed before the resource limits.
_prepare_child_sandbox_seccomp_first(x) ==
    <<"setsid", "apply_child_env", "umask">>
    \o (IF x.enable_no_new_privs THEN <<"no_new_privs">> ELSE <<>>)
    \o (IF x.enable_seccomp THEN <<"seccomp">> ELSE <<>>)
    \o <<"resource_limits">>
    \o <<"close_fds">>

\* _prepare_child_sandbox: the calls it makes, in order.
_prepare_child_sandbox(x) ==
    <<"setsid", "apply_child_env", "umask">>
    \o (IF x.enable_no_new_privs THEN <<"no_new_privs">> ELSE <<>>)
    \o <<"resource_limits">>
    \o (IF x.enable_seccomp THEN <<"seccomp">> ELSE <<>>)
    \o <<"close_fds">>

\* _child_entry: the calls of the try block, in order.
_child_entry(x) ==
    (IF x.cgroup_path THEN <<"join_cgroup">> ELSE <<>>)
    \o <<"redirect_stdio">>
    \o _prepare_child_sandbox(x)
    \o <<"harness">>

\* The steps that raise a RuntimeError carrying _INFRA_ERROR_MARKER, and the
\* one that raises a bare OSError (dup2).
MarkerSteps ==
    {"join_cgroup", "setsid", "no_new_privs", "resource_limits", "seccomp"}
RaisingSteps == MarkerSteps \cup {"redirect_stdio"}

Did(step) == \E i \in DOMAIN warm.steps : warm.steps[i] = step
ChildAlive == warm.pc \in {"poll", "reap"} /\ warm.exit = "none"
NextStep == _child_entry(warm)[Len(warm.steps) + 1]
InHarness ==
    /\ warm.steps # <<>>
    /\ warm.steps[Len(warm.steps)] = "harness"

WarmFrame == UNCHANGED <<coreVars, submitVars, isoVars, moreVars>>

\* run_problem, _run_child raises (pipe, open or fork fails): the except
\* clause returns the classification itself.
WarmRunChildRaises ==
    /\ warm.pc = "start"
    /\ warm' = [warm EXCEPT !.pc = "done",
                            !.raised = "_run_child",
                            !.result = [status |-> "Runtime Error",
                                        error |-> "Warm executor failed",
                                        error_kind |-> "internal"]]
    /\ WarmFrame

\* _run_child up to the fork: create_child gives the job's cgroup or None.
WarmFork ==
    /\ warm.pc = "start"
    /\ \E c \in BOOLEAN :
         warm' = [warm EXCEPT !.pc = "poll", !.cgroup_path = c]
    /\ WarmFrame

\* One set-up call of the child returns.  A seccomp call that cannot install
\* its filter returns too unless seccomp_fail_closed is set.
ChildStep ==
    /\ ChildAlive
    /\ ~InHarness
    /\ \E installed \in BOOLEAN, u \in Unresolvable :
         /\ installed = FALSE =>
              NextStep = "seccomp" /\ ~warm.seccomp_fail_closed
         /\ (NextStep # "seccomp" \/ ~installed) => u = {}
         /\ warm' = [warm EXCEPT
                       !.steps = Append(@, NextStep),
                       !.filter = IF NextStep = "seccomp" THEN installed
                                  ELSE @,
                       !.unresolved = IF NextStep = "seccomp" /\ installed
                                      THEN u ELSE @,
                       !.denied = IF NextStep = "seccomp" /\ installed
                                  THEN _apply_seccomp_filter(warm, u)
                                  ELSE @]
    /\ WarmFrame

\* One set-up call raises: the except clause prints the traceback on
\* sys.stderr (the pipe only once the stdio is redirected) and exits 1.
ChildStepRaises ==
    /\ ChildAlive
    /\ ~InHarness
    /\ NextStep \in RaisingSteps
    /\ NextStep = "seccomp" => warm.seccomp_fail_closed
    /\ warm' = [warm EXCEPT
                  !.raised = NextStep,
                  !.exit = "nonzero",
                  !.marker = /\ NextStep \in MarkerSteps
                             /\ Did("redirect_stdio")]
    /\ WarmFrame

\* The harness or the user code writes one unit to a pipe with room.
ChildWrite ==
    /\ ChildAlive
    /\ InHarness
    /\ ~warm.closed
    /\ warm.written < MaxWritten
    /\ warm.pipe < PipeCapacity
    /\ warm' = [warm EXCEPT !.written = @ + 1, !.pipe = @ + 1]
    /\ WarmFrame

\* The user code closes its stdout and stderr (file descriptors 1 and 2) and
\* keeps running: for the parent both pipes are at end of file once read.
ChildClosePipes ==
    /\ ChildAlive
    /\ InHarness
    /\ ~warm.closed
    /\ warm' = [warm EXCEPT !.closed = TRUE]
    /\ WarmFrame

\* The harness ends: os._exit(0) with what stdout holds, os._exit(1) after
\* an exception, or death by a signal.
ChildExit ==
    /\ ChildAlive
    /\ InHarness
    /\ \/ \E shape \in StdoutShapes :
            warm' = [warm EXCEPT !.exit = "zero", !.stdout = shape]
       \/ \E e \in {"nonzero", "signal"} :
            warm' = [warm EXCEPT !.exit = e]
    /\ WarmFrame

\* The kernel kills the child for exceeding memory.max of the job's cgroup.
ChildOomKilled ==
    /\ ChildAlive
    /\ Did("join_cgroup")
    /\ warm' = [warm EXCEPT !.exit = "signal", !.oom_kill = TRUE]
    /\ WarmFrame
\* _poll_child_io, one os.read of a readable pipe: the chunk is counted, and
\* kept only while the count stays within the cap.
PollRead ==
    /\ warm.pc = "poll"
    /\ \E n \in 1..warm.pipe :
         LET total == warm.total_bytes + n IN
         warm' = [warm EXCEPT
                    !.pipe = @ - n,
                    !.total_bytes = total,
                    !.kept = IF total <= _MAX_CHILD_OUTPUT_BYTES
                             THEN @ + n ELSE @,
                    !.truncated = IF total <= _MAX_CHILD_OUTPUT_BYTES
                                  THEN @ ELSE TRUE]
    /\ WarmFrame

\* _poll_child_io returns because the child is gone: at the pidfd event, or
\* without a pidfd once both pipes are at end of file.
PollChildExited ==
    /\ warm.pc = "poll"
    /\ IF warm.pidfd THEN warm.exit # "none"
       ELSE warm.pipe = 0 /\ (warm.exit # "none" \/ warm.closed)
    /\ warm' = [warm EXCEPT !.pc = "reap"]
    /\ WarmFrame

\* _poll_child_io returns at the deadline; _wait_and_collect kills the
\* child's process group.
PollTimeout ==
    /\ warm.pc = "poll"
    /\ warm' = [warm EXCEPT
                  !.pc = "reap",
                  !.timed_out = TRUE,
                  !.exit = IF @ = "none" THEN "signal" ELSE @]
    /\ WarmFrame

\* _build_child_result: the return code of the reaped child.
_build_child_result(x) ==
    [returncode |-> IF x.timed_out THEN 1
                    ELSE IF x.exit = "zero" THEN 0
                    ELSE IF x.exit = "nonzero" THEN 1
                    ELSE 128 + 9,
     timed_out |-> x.timed_out,
     oom_killed |-> x.cgroup_path /\ x.oom_kill,
     output_truncated |-> x.truncated,
     marker |-> x.marker,
     stdout |-> x.stdout]

WarmResult(status, error, error_kind) ==
    [status |-> status, error |-> error, error_kind |-> error_kind]

\* Faulty variant: the deadline is looked at before the OOM kill.
run_problem_timeout_first(child) ==
    IF child.timed_out
    THEN WarmResult("Time Limit Exceeded", "Time Limit Exceeded", "user")
    ELSE IF child.oom_killed
    THEN WarmResult("Memory Limit Exceeded", "Memory Limit Exceeded", "user")
    ELSE IF child.returncode # 0
    THEN WarmResult("Runtime Error", "Runner failed",
                    IF child.marker THEN "internal" ELSE "user")
    ELSE IF child.output_truncated
    THEN WarmResult("Runtime Error", "Output Limit Exceeded", "user")
    ELSE IF child.stdout = "garbage"
    THEN WarmResult("Runtime Error", "Invalid runner output", "internal")
    ELSE IF child.stdout = "other_json"
    THEN WarmResult("raise", NULL, NULL)
    ELSE IF child.stdout = "invalid_runner"
    THEN WarmResult("Runtime Error", NULL, NULL)
    ELSE WarmResult("Accepted", NULL, NULL)

\* run_problem after _run_child: the classification of the finished child.
\* JSON that is not a list of objects makes _summarize_results raise, and
\* run_problem with it ("raise").  A harness result has no error and no
\* error_kind; its status is that of the first failed case.
run_problem(child) ==
    IF child.oom_killed
    THEN WarmResult("Memory Limit Exceeded", "Memory Limit Exceeded", "user")
    ELSE IF child.timed_out
    THEN WarmResult("Time Limit Exceeded", "Time Limit Exceeded", "user")
    ELSE IF child.returncode # 0
    THEN WarmResult("Runtime Error", "Runner failed",
                    IF child.marker THEN "internal" ELSE "user")
    ELSE IF child.output_truncated
    THEN WarmResult("Runtime Error", "Output Limit Exceeded", "user")
    ELSE IF child.stdout = "garbage"
    THEN WarmResult("Runtime Error", "Invalid runner output", "internal")
    ELSE IF child.stdout = "other_json"
    THEN WarmResult("raise", NULL, NULL)
    ELSE IF child.stdout = "invalid_runner"
    THEN WarmResult("Runtime Error", NULL, NULL)
    ELSE WarmResult("Accepted", NULL, NULL)

\* _wait_and_collect after the poll loop, and the rest of run_problem: reap
\* the child, drain the pipes unless the cap was hit, classify.  The blocking
\* waitpid returns once the child is dead.
WaitAndCollect ==
    /\ warm.pc = "reap"
    /\ warm.exit # "none"
    /\ LET drained == [warm EXCEPT
                         !.kept = IF warm.truncated THEN @ ELSE @ + warm.pipe,
                         !.pipe = IF warm.truncated THEN @ ELSE 0]
       IN warm' = [drained EXCEPT
                     !.pc = "done",
                     !.result = run_problem(_build_child_result(drained))]
    /\ WarmFrame

InitWarm ==
    /\ InitCore
    /\ InitMore
    /\ sub = [s \in Submitters |-> NoSubmit]
    /\ queue_maxlen = 0
    /\ iso = NoIso
    /\ warm \in {WarmStart(f) : f \in WarmFlags}

NextWarm ==
    \/ WarmRunChildRaises
    \/ WarmFork
    \/ ChildStep
    \/ ChildStepRaises
    \/ ChildWrite
    \/ ChildClosePipes
    \/ ChildExit
    \/ ChildOomKilled
    \/ PollRead
    \/ PollChildExited
    \/ PollTimeout
    \/ WaitAndCollect

SpecWarm == InitWarm /\ [][NextWarm]_vars

\* ------------------------------------------------------------------------
\* Order of the child's set-up
\* ------------------------------------------------------------------------

ListedOrder ==
    <<"join_cgroup", "redirect_stdio", "setsid", "apply_child_env",
      "no_new_privs", "resource_limits", "seccomp", "close_fds", "harness">>
IsListed(step) == \E i \in DOMAIN ListedOrder : ListedOrder[i] = step
Rank(step) == CHOOSE i \in DOMAIN ListedOrder : ListedOrder[i] = step
ListedDone == SelectSeq(warm.steps, IsListed)
InListedOrder ==
    \A i, j \in DOMAIN ListedDone :
        i < j => Rank(ListedDone[i]) < Rank(ListedDone[j])

\* The set-up steps the executor's flags and the job's cgroup call for.
StepsDue ==
    {"redirect_stdio", "setsid", "apply_child_env", "resource_limits",
     "close_fds"}
    \cup (IF warm.cgroup_path THEN {"join_cgroup"} ELSE {})
    \cup (IF warm.enable_no_new_privs THEN {"no_new_privs"} ELSE {})
    \cup (IF warm.enable_seccomp THEN {"seccomp"} ELSE {})

\* C15 as stated: the child's set-up steps happen in the listed order, and
\* the harness runs only after all eight of them (join cgroup, redirect
\* stdio, new session, environment scrub, no_new_privs, resource limits,
\* seccomp filter, close inherited fds) have happened.
C15_AllStepsBeforeHarness ==
    /\ InListedOrder
    /\ Did("harness") => ListedDone = ListedOrder

\* C15, amended: the set-up steps that run happen in the listed order, and
\* the harness runs only after every step that is due has returned: join
\* cgroup only when the job got a cgroup, no_new_privs only when
\* enable_no_new_privs is set, the seccomp filter only when enable_seccomp is
\* set.
C15_SetupOrder ==
    /\ InListedOrder
    /\ Did("harness") => \A step \in StepsDue : Did(step)

\* The harness runs in a child that had no cgroup to join and no seccomp
\* filter to install.
C15_Witness ==
    /\ Did("harness")
    /\ ~warm.cgroup_path
    /\ ~warm.enable_seccomp
    /\ warm.enable_no_new_privs

\* ------------------------------------------------------------------------
\* Classification of a finished warm-fork child
\* ------------------------------------------------------------------------

Classified == warm.pc = "done" /\ warm.raised # "_run_child"
HarnessResult(r) ==
    /\ r.status \in {"Accepted", "Runtime Error"}
    /\ r.error = NULL
    /\ r.error_kind = NULL

\* The precedence of the claim, with the set of stdout contents that count
\* as parseable left open.
Precedence(parseable) ==
    LET c == _build_child_result(warm)
        r == warm.result
    IN
    Classified =>
        IF c.oom_killed
        THEN r.status = "Memory Limit Exceeded" /\ r.error_kind = "user"
        ELSE IF c.timed_out
        THEN r.status = "Time Limit Exceeded" /\ r.error_kind = "user"
        ELSE IF c.returncode # 0
        THEN /\ r.status = "Runtime Error"
             /\ r.error_kind = IF c.marker THEN "internal" ELSE "user"
        ELSE IF c.output_truncated
        THEN r.status = "Runtime Error" /\ r.error_kind = "user"
        ELSE IF c.stdout \in parseable
        THEN HarnessResult(r)
        ELSE IF c.stdout = "garbage"
        THEN r.status = "Runtime Error" /\ r.error_kind = "internal"
        ELSE r.status = "raise"

\* C16 as stated: OOM kill gives Memory Limit Exceeded (user); else a fired
\* deadline gives Time Limit Exceeded (user); else a non-zero exit or a
\* signal gives Runtime Error, internal with the infra marker on stderr and
\* user without; else a hit output cap gives Runtime Error (user); else
\* stdout that parses as JSON gives the harness result and stdout that does
\* not gives Runtime Error (internal).
C16_ClassificationAnyJson ==
    Precedence({"accepted", "invalid_runner", "other_json"})

\* The same precedence holds when the harness result is expected only for
\* stdout that parses as a JSON list of result objects: for stdout that
\* parses as any other JSON run_problem raises instead of classifying.
C16_Classification ==
    Precedence({"accepted", "invalid_runner"})

\* A child that was OOM-killed and also ran into the deadline is classified
\* as Memory Limit Exceeded.
C16_Witness ==
    /\ Classified
    /\ warm.oom_kill
    /\ warm.timed_out
    /\ warm.result.status = "Memory Limit Exceeded"

\* ------------------------------------------------------------------------
\* Isolate executor (runner.py): one job from run_problem to its
\* classification.
\* ------------------------------------------------------------------------

\* _init_isolate_box runs --init at most twice.
InitAttempts == 2

\* What a finished `isolate --run` reports.  With exit code 0 the meta file
\* has no status; otherwise its status is RE, SG, TO or XX, or the file is
\* missing (no status).  cg-oom-killed is reported only under --cg.
IsoStatuses == {"RE", "SG", "TO", "XX", NULL}
IsoRuns(use_cgroups) ==
    {r \in [returncode : {0, 1, 2}, status : IsoStatuses,
            cg_oom_killed : {NULL, "0", "1"}, stdout : StdoutShapes] :
        /\ r.returncode = 0 =>
             r.status = NULL /\ r.cg_oom_killed \in {NULL, "0"}
        /\ r.returncode = 1 <=> r.status \in {"RE", "SG", "TO"}
        /\ r.returncode # 0 => r.stdout = "garbage"
        /\ ~use_cgroups => r.cg_oom_killed = NULL}

_isolate_failed_with_tle(meta) == meta.status = "TO"
_isolate_failed_with_mle(meta) == meta.cg_oom_killed \notin {NULL, "", "0"}
_isolate_failed_with_internal_error(meta) ==
    meta.status = "XX" \/ meta.status = NULL

\* Faulty variant: a run without a status in its meta file is the user's.
runner_run_problem_missing_meta_user(x) ==
    IF x.returncode # 0
    THEN IF _isolate_failed_with_tle(x)
         THEN WarmResult("Time Limit Exceeded", "Time Limit Exceeded", "user")
         ELSE IF _isolate_failed_with_mle(x)
         THEN WarmResult("Memory Limit Exceeded", "Memory Limit Exceeded",
                         "user")
         ELSE WarmResult("Runtime Error", "Runner failed",
                         IF x.status = "XX" THEN "internal" ELSE "user")
    ELSE IF x.stdout = "garbage"
    THEN WarmResult("Runtime Error", "Invalid runner output", "internal")
    ELSE IF x.stdout = "other_json"
    THEN WarmResult("raise", NULL, NULL)
    ELSE IF x.stdout = "invalid_runner"
    THEN WarmResult("Runtime Error", NULL, NULL)
    ELSE WarmResult("Accepted", NULL, NULL)

\* runner.run_problem after _run_in_isolate returned.
runner_run_problem(x) ==
    IF x.returncode # 0
    THEN IF _isolate_failed_with_tle(x)
         THEN WarmResult("Time Limit Exceeded", "Time Limit Exceeded", "user")
         ELSE IF _isolate_failed_with_mle(x)
         THEN WarmResult("Memory Limit Exceeded", "Memory Limit Exceeded",
                         "user")
         ELSE WarmResult("Runtime Error", "Runner failed",
                         IF _isolate_failed_with_internal_error(x)
                         THEN "internal" ELSE "user")
    ELSE IF x.stdout = "garbage"
    THEN WarmResult("Runtime Error", "Invalid runner output", "internal")
    ELSE IF x.stdout = "other_json"
    THEN WarmResult("raise", NULL, NULL)
    ELSE IF x.stdout = "invalid_runner"
    THEN WarmResult("Runtime Error", NULL, NULL)
    ELSE WarmResult("Accepted", NULL, NULL)

IsoFrame == UNCHANGED <<coreVars, submitVars, warmVars, moreVars>>
RunnerFailed == WarmResult("Runtime Error", "Runner failed", "internal")

\* _init_isolate_box, an --init that exits 0.
IsoInit ==
    /\ iso.pc = "init"
    /\ iso' = [iso EXCEPT !.pc = "entrypoint", !.box = TRUE]
    /\ IsoFrame

\* _init_isolate_box, an --init that fails: --cleanup, then the second
\* attempt or the RuntimeError that run_problem turns into a result.
IsoInitFails ==
    /\ iso.pc = "init"
    /\ iso' = IF iso.tries + 1 < InitAttempts
              THEN [iso EXCEPT !.tries = @ + 1]
              ELSE [iso EXCEPT !.tries = @ + 1, !.pc = "done",
                               !.raised = "init", !.result = RunnerFailed]
    /\ IsoFrame

\* _run_in_isolate before its try block: _harness_entrypoint returns.
IsoEntrypoint ==
    /\ iso.pc = "entrypoint"
    /\ iso' = [iso EXCEPT !.pc = "run"]
    /\ IsoFrame

\* _harness_entrypoint raises (_ensure_harness_file cannot create the
\* runtime directory or write the harness): the exception leaves
\* _run_in_isolate before its try block is entered.
IsoEntrypointRaises ==
    /\ iso.pc = "entrypoint"
    /\ iso' = [iso EXCEPT !.pc = "done", !.raised = "entrypoint",
                          !.result = RunnerFailed]
    /\ IsoFrame

\* The try block up to the return: the sandbox run reports r.
IsoRun ==
    /\ iso.pc = "run"
    /\ \E r \in IsoRuns(iso.use_cgroups) :
         iso' = [iso EXCEPT !.pc = "finally",
                            !.returncode = r.returncode,
                            !.status = r.status,
                            !.cg_oom_killed = r.cg_oom_killed,
                            !.stdout = r.stdout]
    /\ IsoFrame

\* The try block raises: subprocess.TimeoutExpired at the parent-side
\* timeout, or another exception (a file of the box cannot be written).
IsoRunRaises ==
    /\ iso.pc = "run"
    /\ \E e \in {"timeout", "run"} :
         iso' = [iso EXCEPT !.pc = "finally", !.raised = e]
    /\ IsoFrame

\* The finally clause: --cleanup of the box.
IsoCleanup ==
    /\ iso.pc = "finally"
    /\ iso' = [iso EXCEPT !.pc = "classify", !.box = FALSE]
    /\ IsoFrame

\* run_problem after _run_in_isolate: the except clauses or the
\* classification of what it returned.
IsoClassify ==
    /\ iso.pc = "classify"
    /\ iso' = [iso EXCEPT
                 !.pc = "done",
                 !.result =
                    IF iso.raised = "timeout"
                    THEN WarmResult("Time Limit Exceeded",
                                    "Time Limit Exceeded", "user")
                    ELSE IF iso.raised = "run"
                    THEN RunnerFailed
                    ELSE runner_run_problem(iso)]
    /\ IsoFrame

InitIso ==
    /\ InitCore
    /\ InitMore
    /\ sub = [s \in Submitters |-> NoSubmit]
    /\ queue_maxlen = 0
    /\ warm = NoWarm
    /\ iso \in {[NoIso EXCEPT !.pc = "init", !.use_cgroups = c] :
                  c \in BOOLEAN}

NextIso ==
    \/ IsoInit
    \/ IsoInitFails
    \/ IsoEntrypoint
    \/ IsoEntrypointRaises
    \/ IsoRun
    \/ IsoRunRaises
    \/ IsoCleanup
    \/ IsoClassify

SpecIso == InitIso /\ [][NextIso]_vars

\* ------------------------------------------------------------------------
\* Classification of an isolate run
\* ------------------------------------------------------------------------

IsoClassified == iso.pc = "done" /\ iso.raised = "none"

\* The classification of the claim, with the set of stdout contents that
\* count as parseable left open.
IsoVerdict(parseable) ==
    LET r == iso.result IN
    IsoClassified =>
        IF iso.status = "TO"
        THEN r.status = "Time Limit Exceeded" /\ r.error_kind = "user"
        ELSE IF iso.cg_oom_killed \notin {NULL, "0"}
        THEN r.status = "Memory Limit Exceeded" /\ r.error_kind = "user"
        ELSE IF iso.returncode # 0 /\ iso.status \in {"XX", NULL}
        THEN r.status = "Runtime Error" /\ r.error_kind = "internal"
        ELSE IF iso.returncode # 0
        THEN r.status = "Runtime Error" /\ r.error_kind = "user"
        ELSE IF iso.stdout \in parseable
        THEN HarnessResult(r)
        ELSE IF iso.stdout = "garbage"
        THEN r.status = "Runtime Error" /\ r.error_kind = "internal"
        ELSE r.status = "raise"

\* C17 as stated: meta status TO gives Time Limit Exceeded (user);
\* cg-oom-killed other than 0 gives Memory Limit Exceeded (user); status XX
\* or a missing meta file gives Runtime Error (internal); any other non-zero
\* exit gives Runtime Error (user); exit 0 with stdout that parses as JSON
\* gives the harness result; exit 0 with unparseable stdout gives Runtime
\* Error (internal).
C17_IsolateVerdictAnyJson ==
    IsoVerdict({"accepted", "invalid_runner", "other_json"})

\* The same classification holds when the harness result is expected only
\* for stdout that parses as a JSON list of result objects.
C17_IsolateVerdict ==
    IsoVerdict({"accepted", "invalid_runner"})

\* A run that exited non-zero without a status in its meta file is
\* classified as an internal Runtime Error.
C17_Witness ==
    /\ IsoClassified
    /\ iso.returncode # 0
    /\ iso.status = NULL
    /\ iso.result.error_kind = "internal"

\* ------------------------------------------------------------------------
\* Output cap of the warm-fork parent
\* ------------------------------------------------------------------------

\* C18: whenever a warm-fork child writes more than the cap to stdout and
\* stderr combined, the bytes beyond the cap are dropped and the job is
\* classified as Runtime Error with the Output Limit Exceeded message.  Stated
\* for a child that exits 0 with no OOM kill and no deadline, so that no
\* earlier row of the classification applies.
C18_OverCapIsOutputLimitExceeded ==
    LET c == _build_child_result(warm) IN
    (/\ Classified
     /\ warm.written > _MAX_CHILD_OUTPUT_BYTES
     /\ ~c.oom_killed
     /\ ~c.timed_out
     /\ c.returncode = 0)
    => /\ warm.kept <= _MAX_CHILD_OUTPUT_BYTES
       /\ warm.result.status = "Runtime Error"
       /\ warm.result.error = "Output Limit Exceeded"

\* ------------------------------------------------------------------------
\* Cleanup of the isolate box
\* ------------------------------------------------------------------------

\* C19: every successful --init of the worker's box is followed by a
\* --cleanup of that box before run_problem returns, on every path: when
\* run_problem has returned, no initialised box is left without cleanup.
C19_InitFollowedByCleanup ==
    iso.pc = "done" => ~iso.box

\* ------------------------------------------------------------------------
\* Infrastructure failures
\* ------------------------------------------------------------------------

\* WorkerExecutionService.execute after run_problem_fn: the state and the
\* error kind it persists for a result (the store accepting the write).
ExecutePersists(r) ==
    IF r.status = "raise"
    THEN [status |-> "error", error_kind |-> "internal"]
    ELSE IF r.error \notin {NULL, ""}
    THEN [status |-> "error",
          error_kind |-> IF r.error_kind \in {NULL, ""} THEN "internal"
                         ELSE r.error_kind]
    ELSE [status |-> "done", error_kind |-> "none"]

\* The job's failure has an infrastructure cause: the executor raised, the
\* cgroup could not be joined, seccomp could not be loaded, the problem's
\* runner expression is invalid, or the harness output does not parse.
InfraCause ==
    \/ warm.raised \in {"_run_child", "join_cgroup", "seccomp"}
    \/ /\ warm.exit = "zero"
       /\ ~warm.truncated
       /\ warm.stdout \in {"invalid_runner", "garbage", "other_json"}

\* C20: a job whose failure has an infrastructure cause fails with error_kind
\* internal and ends in state error.  Stated for jobs that hit neither the
\* deadline nor the OOM killer.
C20_InfraFailureIsInternal ==
    (/\ warm.pc = "done"
     /\ ~warm.timed_out
     /\ ~warm.oom_kill
     /\ InfraCause)
    => ExecutePersists(warm.result) =
           [status |-> "error", error_kind |-> "internal"]

\* The part of C20 that holds: an executor that raises, a seccomp filter that
\* cannot be loaded and harness output that does not parse as a list of
\* results end in state error with kind internal.
C20_RaisedSeccompUnparseable ==
    (/\ warm.pc = "done"
     /\ ~warm.timed_out
     /\ ~warm.oom_kill
     /\ \/ warm.raised \in {"_run_child", "seccomp"}
        \/ /\ warm.exit = "zero"
           /\ ~warm.truncated
           /\ warm.stdout \in {"garbage", "other_json"})
    => ExecutePersists(warm.result) =
           [status |-> "error", error_kind |-> "internal"]

\* ------------------------------------------------------------------------
\* From the harness to the persisted row: run_cases (the harness),
\* _summarize_results and the tail of run_problem, execute's persist step.
\* ------------------------------------------------------------------------

\* Cases per test file of a problem.
MaxCases == 2
CaseStatuses == {"Accepted", "Wrong Answer", "Runtime Error"}
\* The user code and the runner expression compile, or one of them does not.
Compiles == {"ok", "bad_runner", "bad_solution"}

\* ProblemRepository._build_problem: np public cases, and the nh hidden ones
\* only when asked for.
_build_problem(np, nh, include_hidden) ==
    [public_tests |-> [i \in 1..np |-> [id |-> i, hidden |-> FALSE]],
     hidden_tests |-> IF include_hidden
                      THEN [i \in 1..nh |-> [id |-> np + i, hidden |-> TRUE]]
                      ELSE <<>>]

\* WorkerExecutionService._resolve_problem for the two kinds the parser lets
\* through.
_resolve_problem(kind, np, nh) ==
    IF kind = KindRun
    THEN [include_hidden |-> FALSE, detail_mode |-> "all",
          problem |-> _build_problem(np, nh, FALSE)]
    ELSE [include_hidden |-> TRUE, detail_mode |-> "first_failure",
          problem |-> _build_problem(np, nh, TRUE)]

\* _build_test_config: the cases handed to the harness.
_build_test_config(problem, include_hidden) ==
    problem.public_tests
    \o (IF include_hidden THEN problem.hidden_tests ELSE <<>>)

\* The harness's run_cases: one error item when the runner expression or the
\* user code does not compile, else one item per case, in order; behave gives
\* the status each case ends with.
run_cases(cases, compile, behave) ==
    IF compile # "ok"
    THEN <<[id |-> "error", status |-> "Runtime Error", hidden |-> FALSE]>>
    ELSE [i \in DOMAIN cases |->
            [id |-> cases[i].id, status |-> behave[cases[i].id],
             hidden |-> cases[i].hidden]]

NoItem == [id |-> "none", status |-> "none", hidden |-> FALSE]
Failed(results) == {i \in DOMAIN results : results[i].status # "Accepted"}
Min(S) == CHOOSE x \in S : \A y \in S : x <= y
Max(S) == CHOOSE x \in S : \A y \in S : x >= y

\* Faulty variant: the last failed item is reported.
_summarize_results_last_failed(results) ==
    [total |-> Len(results),
     passed |-> Len(results) - Cardinality(Failed(results)),
     failed |-> Cardinality(Failed(results)),
     first_failed |-> IF Failed(results) = {} THEN NoItem
                      ELSE results[Max(Failed(results))]]

\* _summarize_results: the counts and the first item that is not Accepted.
_summarize_results(results) ==
    [total |-> Len(results),
     passed |-> Len(results) - Cardinality(Failed(results)),
     failed |-> Cardinality(Failed(results)),
     first_failed |-> IF Failed(results) = {} THEN NoItem
                      ELSE results[Min(Failed(results))]]

\* The tail of run_problem (both executors) for parsed harness output.
run_problem_result(results, detail_mode) ==
    LET s == _summarize_results(results) IN
    [status |-> IF s.failed > 0 /\ s.first_failed # NoItem
                THEN s.first_failed.status ELSE "Accepted",
     tests |-> IF detail_mode = "first_failure"
               THEN (IF s.first_failed # NoItem THEN <<s.first_failed>>
                     ELSE <<>>)
               ELSE results,
     error |-> NULL]

\* execute after run_problem_fn returned r, on the row mark_running left:
\* mark_error when r has an error, else mark_done.
RunningRow == [NewRow EXCEPT !.status = "running", !.attempts = 1,
                             !.started_at = 1]
execute_persist(r) ==
    LET j == <<"a">>
        rows == [x \in {j} |-> RunningRow]
    IN IF r.error \notin {NULL, ""}
       THEN mark_error(rows, j, r.error, r, "user", 1).rows[j]
       ELSE mark_done(rows, j, r, 1).rows[j]

JudgeFrame ==
    /\ UNCHANGED <<jobs, added, live, pel, idle, lastDelivered, pc, cur, todo,
                   ret, res, outcome, trace, faultsLeft, termOk, runOk,
                   finalBy>>
    /\ UNCHANGED otherVars

\* One job from _resolve_problem to the persisted row.
ExecuteJob ==
    /\ call.op = "none"
    /\ \E kind \in {KindRun, KindSubmit}, np \in 0..MaxCases, nh \in 0..MaxCases,
       compile \in Compiles :
      \E behave \in [1..(np + nh) -> CaseStatuses] :
        LET rp == _resolve_problem(kind, np, nh)
            cases == _build_test_config(rp.problem, rp.include_hidden)
            results == run_cases(cases, compile, behave)
            result == run_problem_result(results, rp.detail_mode)
        IN /\ call' = [op |-> "execute", kind |-> kind, np |-> np, nh |-> nh,
                       compile |-> compile, cases |-> cases,
                       results |-> results, result |-> result,
                       row |-> execute_persist(result)]
           /\ JudgeFrame

NextJudge == ExecuteJob
SpecJudge == Init /\ [][NextJudge]_vars

\* C21: a submission whose function raises an exception while its cases run
\* yields a persisted result with status Runtime Error and error_kind user.
C21_RaisingSubmissionIsUserError ==
    (/\ call.op = "execute"
     /\ call.compile = "ok"
     /\ call.results # <<>>
     /\ \A i \in DOMAIN call.results :
            call.results[i].status = "Runtime Error")
    => /\ call.row.result_json.status = "Runtime Error"
       /\ call.row.error_kind = "user"

\* ------------------------------------------------------------------------
\* The API boundary: get_job and _sanitize_job.
\* ------------------------------------------------------------------------

\* A text of the response is a Python str made of the fixed part of the
\* message followed by the interpolated detail; a dict is a record of its
\* keys.
Piece(s) == IF s = "" THEN <<>> ELSE <<s>>
Text(prefix, detail) == PyStr(Piece(prefix) \o Piece(detail))
IsDict(v) == "t" \notin DOMAIN v
\* A value in a condition: None and the empty string are falsy.
Truthy(v) == v # PyNone /\ v # PyStr(<<>>)
Details == {"", "a", "b"}
MaskedError == Text("Internal judge error. Please retry.", "")

\* The ways an error row is written: execute with an executor result that has
\* an error, execute's except clause, the submitter's enqueue failure, the
\* worker's invalid payload.
ErrorSources == {"result", "worker_error", "enqueue", "payload"}
ErrorStatuses ==
    {"Runtime Error", "Time Limit Exceeded", "Memory Limit Exceeded"}
ResultPrefixes == {"", "Runner failed: ", "Time Limit Exceeded ("}

\* An executor's error result (runner.py 582-630, warm_executor.py 415-473).
ExecResult(status, error, error_kind) ==
    [status |-> status, summary |-> "summary", tests |-> <<>>,
     error |-> error, error_kind |-> error_kind]

\* The row the source writes for raw detail d; execute's
\* str(result.get("error_kind") or "internal") is the kind stored.
ErrorRow(source, status, prefix, kind, d) ==
    LET j == <<"a">>
        rows == [x \in {j} |-> RunningRow]
        r == ExecResult(status, Text(prefix, d), kind)
    IN CASE source = "result" ->
              mark_error(rows, j, r.error, r,
                         IF r.error_kind = "" THEN "internal"
                         ELSE r.error_kind, 1).rows[j]
         [] source = "worker_error" ->
              mark_error(rows, j, Text("Worker error: ", d), PyNone,
                         "internal", 1).rows[j]
         [] source = "enqueue" ->
              mark_error(rows, j, Text("Failed to enqueue job", ""), PyNone,
                         "internal", 1).rows[j]
         [] OTHER ->
              mark_error(rows, j, Text("Invalid queue payload: ", d), PyNone,
                         "internal", 1).rows[j]

\* ResultsStore.get_job: the row as a dict, result_json decoded.
get_job(row) ==
    [status |-> row.status, result |-> row.result_json, error |-> row.error,
     error_kind |-> row.error_kind]

Pop(d, key) == [k \in (DOMAIN d) \ {key} |-> d[k]]

\* The result of _sanitize_job before masking: error_kind popped, and the
\* result dropped unless it has status, summary and tests.
SanitizedResult(job) ==
    IF IsDict(job.result)
    THEN (IF {"status", "summary", "tests"} \subseteq DOMAIN job.result
          THEN Pop(job.result, "error_kind") ELSE PyNone)
    ELSE job.result

SanitizedKind(job) ==
    IF job.error_kind \in {"user", "internal"} THEN job.error_kind ELSE NULL

\* Faulty variant: only the top-level error is masked.
_sanitize_job_top_only(job) ==
    LET result == SanitizedResult(job)
        error_kind == SanitizedKind(job)
    IN [status |-> job.status,
        error_kind |-> error_kind,
        error |-> IF error_kind = "internal" /\ Truthy(job.error)
                  THEN MaskedError ELSE job.error,
        result |-> result]

\* _sanitize_job.
_sanitize_job(job) ==
    LET result == SanitizedResult(job)
        error_kind == SanitizedKind(job)
        mask_inner == IF error_kind = "internal" /\ IsDict(result)
                      THEN (IF "error" \in DOMAIN result
                            THEN Truthy(result.error) ELSE FALSE)
                      ELSE FALSE
    IN [status |-> job.status,
        error_kind |-> error_kind,
        error |-> IF error_kind = "internal" /\ Truthy(job.error)
                  THEN MaskedError ELSE job.error,
        result |-> IF mask_inner
                   THEN [result EXCEPT !.error = MaskedError] ELSE result]

\* GET /jobs/{id} for two jobs that went wrong the same way with raw details
\* d1 and d2.
GetJobs ==
    /\ call.op = "none"
    /\ \E source \in ErrorSources, status \in ErrorStatuses,
       prefix \in ResultPrefixes, kind \in {"user", "internal"},
       d1 \in Details, d2 \in Details :
        LET row1 == ErrorRow(source, status, prefix, kind, d1)
            row2 == ErrorRow(source, status, prefix, kind, d2)
        IN \* execute writes an error row only for a truthy result error
           /\ source = "result" => /\ Truthy(Text(prefix, d1))
                                   /\ Truthy(Text(prefix, d2))
           /\ source # "result" =>
                 /\ status = "Runtime Error"
                 /\ prefix = ""
                 /\ kind = "internal"
           /\ call' = [op |-> "get_job", source |-> source,
                       job1 |-> get_job(row1), job2 |-> get_job(row2),
                       resp1 |-> _sanitize_job(get_job(row1)),
                       resp2 |-> _sanitize_job(get_job(row2))]
           /\ JudgeFrame

NextApi == GetJobs
SpecApi == Init /\ [][NextApi]_vars

Masked(job, resp) ==
    /\ resp.error = MaskedError
    /\ resp.error_kind = "internal"
    /\ IsDict(job.result) =>
          /\ IsDict(resp.result)
          /\ resp.result.error = MaskedError
          /\ "error_kind" \notin DOMAIN resp.result

Verbatim(job, resp) ==
    /\ resp.error = job.error
    /\ resp.error_kind = "user"
    /\ IsDict(job.result) =>
          /\ IsDict(resp.result)
          /\ resp.result.error = job.result.error
          /\ "error_kind" \notin DOMAIN resp.result

\* C22: for a job whose error_kind is internal the response carries the fixed
\* retry message as error and as result.error, error_kind internal at the
\* top level and none inside the result, so the responses of two internal
\* jobs that differ only in their raw error texts are equal; a user error is
\* returned as stored.
C22_InternalErrorsMasked ==
    call.op = "get_job" =>
        /\ call.job1.error_kind = "internal" =>
              /\ Masked(call.job1, call.resp1)
              /\ Masked(call.job2, call.resp2)
              /\ call.resp1 = call.resp2
        /\ call.job1.error_kind = "user" =>
              /\ Verbatim(call.job1, call.resp1)
              /\ Verbatim(call.job2, call.resp2)

C22_Witness ==
    /\ call.op = "get_job"
    /\ call.job1.error_kind = "internal"
    /\ IsDict(call.job1.result)
    /\ call.job1.error # call.job2.error
    /\ call.job1.result.error # call.job2.result.error
    /\ call.resp1 = call.resp2

\* What C23 asks of a finished job: a submit job ran the public and the
\* hidden cases and lists the first case that is not Accepted, or nothing; a
\* run job ran the public cases and lists them all, in order.
RanCases(n) ==
    /\ Len(call.results) = n
    /\ \A i \in 1..Len(call.results) : call.results[i].id = i

ListsFirstFailure ==
    LET tests == call.result.tests IN
    /\ Len(tests) <= 1
    /\ Len(tests) = 0 <=>
          \A i \in DOMAIN call.results : call.results[i].status = "Accepted"
    /\ Len(tests) = 1 =>
          \E i \in DOMAIN call.results :
              /\ tests[1] = call.results[i]
              /\ tests[1].status # "Accepted"
              /\ \A k \in 1..(i - 1) : call.results[k].status = "Accepted"

ListsEveryCase ==
    /\ Len(call.result.tests) = call.np
    /\ \A i \in 1..Len(call.result.tests) :
          /\ call.result.tests[i].id = i
          /\ ~call.result.tests[i].hidden
          /\ call.result.tests[i] = call.results[i]

DetailContract ==
    /\ call.kind = KindSubmit =>
          RanCases(call.np + call.nh) /\ ListsFirstFailure
    /\ call.kind = KindRun => RanCases(call.np) /\ ListsEveryCase

\* C23 (as stated): every submit job runs public and hidden cases and lists
\* at most one per-case record, the first case that is not Accepted; every
\* run job runs only the public cases and lists one record per case, in
\* case order.
C23_DetailModeAlways == call.op = "execute" => DetailContract

\* C23 (amended): the same, for a job whose runner expression and user code
\* compile.  Otherwise the harness ran no case and the result lists the one
\* synthetic record with id "error".
C23_DetailMode ==
    (call.op = "execute" /\ call.compile = "ok") => DetailContract

C23_Witness ==
    /\ call.op = "execute"
    /\ call.compile = "ok"
    /\ call.kind = KindSubmit
    /\ call.np = 1
    /\ call.nh = 2
    /\ call.results[1].status = "Accepted"
    /\ call.results[2].status = "Wrong Answer"
    /\ call.results[3].status = "Runtime Error"
    /\ call.result.tests = <<call.results[2]>>

\* ------------------------------------------------------------------------
\* _truncate and _sanitize_item: the per-case record that is persisted.
\* ------------------------------------------------------------------------

\* Longest text of a field, and largest budget tried.
MaxText == 3
MaxBudget == 4
Budgets == (0 - 1)..MaxBudget
Xs(n) == [i \in 1..n |-> "x"]
FieldTexts == {Xs(n) : n \in 0..MaxText}
Ellipsis == <<".", ".", ".">>

\* Python's value[:k]: the first k characters, and for a negative k all but
\* the last -k.
SliceTo(value, k) ==
    LET n == IF k >= 0 THEN (IF k < Len(value) THEN k ELSE Len(value))
             ELSE (IF Len(value) + k > 0 THEN Len(value) + k ELSE 0)
    IN SubSeq(value, 1, n)

_truncate(value, max_chars) ==
    IF Len(value) <= max_chars THEN value
    ELSE SliceTo(value, max_chars - 3) \o Ellipsis

_sanitize_item(item, max_output_chars) ==
    [id |-> item.id, status |-> item.status, hidden |-> item.hidden,
     input |-> item.input,
     stdout |-> _truncate(item.stdout, max_output_chars),
     output |-> _truncate(item.output, max_output_chars),
     expected |-> _truncate(item.expected, max_output_chars),
     stderr |-> _truncate(item.stderr, max_output_chars)]

\* One item of the harness output put into the result under a budget.
SanitizeItem ==
    /\ call.op = "none"
    /\ \E budget \in Budgets, status \in CaseStatuses,
       i \in FieldTexts, so \in FieldTexts, o \in FieldTexts,
       e \in FieldTexts, se \in FieldTexts :
        LET item == [id |-> 1, status |-> status, hidden |-> FALSE,
                     input |-> i, stdout |-> so, output |-> o,
                     expected |-> e, stderr |-> se]
        IN /\ call' = [op |-> "sanitize", max_output_chars |-> budget,
                       item |-> item, out |-> _sanitize_item(item, budget)]
           /\ JudgeFrame

NextTruncate == SanitizeItem
SpecTruncate == Init /\ [][NextTruncate]_vars

TextFields == {"input", "stdout", "output", "expected", "stderr"}

\* C24: in every per-case record of a result each of input, stdout, output,
\* expected and stderr is at most max_output_chars long, for every budget
\* and every harness output.
C24_FieldsWithinBudget ==
    call.op = "sanitize" =>
        \A f \in TextFields : Len(call.out[f]) <= call.max_output_chars

\* What does hold: with a budget of at least 3, the four fields that go
\* through _truncate are within it.
C24_TruncatedFieldsWithinBudget ==
    (call.op = "sanitize" /\ call.max_output_chars >= 3) =>
        \A f \in TextFields \ {"input"} :
            Len(call.out[f]) <= call.max_output_chars

\* The syscalls C25 names for a child's configuration.
MustDeny(x) ==
    {"execve", "socket"}
    \cup (IF x.deny_filesystem THEN {"open", "openat"} ELSE {})

UserCodeUnderSeccomp ==
    /\ InHarness
    /\ warm.enable_no_new_privs
    /\ warm.enable_seccomp

\* C25 (as stated): whenever user code runs in a child with
\* enable_no_new_privs and enable_seccomp set, a filter is loaded that denies
\* execve and socket and, with filesystem deny on, open and openat.
C25_UserCodeAlwaysFiltered ==
    UserCodeUnderSeccomp =>
        /\ warm.filter
        /\ MustDeny(warm) \subseteq warm.denied

\* C25 (amended): the same when seccomp_fail_closed is set as well, for each
\* of these syscalls whose name resolves on the running kernel.
C25_UserCodeFilteredFailClosed ==
    (UserCodeUnderSeccomp /\ warm.seccomp_fail_closed) =>
        /\ warm.filter
        /\ (MustDeny(warm) \ warm.unresolved) \subseteq warm.denied

C25_Witness ==
    /\ UserCodeUnderSeccomp
    /\ warm.seccomp_fail_closed
    /\ warm.deny_filesystem
    /\ warm.unresolved = {}
    /\ {"execve", "socket", "open", "openat"} \subseteq warm.denied

\* ------------------------------------------------------------------------
\* _ensure_harness_file called by several worker processes.  The runtime
\* directory maps the two names, harness-<digest>.tmp and
\* harness-<digest>.py, to a file (0: no such name); content holds what
\* each file created so far contains.
\* ------------------------------------------------------------------------

EnsureFrame ==
    UNCHANGED <<coreVars, submitVars, warmVars, isoVars, executor, cgroup,
                child_env>>

\* if _HARNESS_HOST_PATH.exists(): return _HARNESS_HOST_PATH
EnsureExists(p) ==
    /\ ensure.proc[p].pc = "idle"
    /\ ensure' = [ensure EXCEPT
                    !.proc[p].pc = IF ensure.host # 0 THEN "done"
                                   ELSE "mkdir"]
    /\ EnsureFrame

\* _RUNTIME_DIR.mkdir(parents=True, exist_ok=True)
EnsureMkdir(p) ==
    /\ ensure.proc[p].pc = "mkdir"
    /\ ensure' = [ensure EXCEPT !.proc[p].pc = "open"]
    /\ EnsureFrame

\* temp_path.write_text, the open: the name is created if it is not there,
\* and the file it names is truncated.
EnsureOpen(p) ==
    /\ ensure.proc[p].pc = "open"
    /\ LET f == IF ensure.tmp = 0 THEN Len(ensure.content) + 1
                ELSE ensure.tmp
       IN ensure' = [ensure EXCEPT
                       !.proc[p].pc = "write",
                       !.proc[p].fd = f,
                       !.tmp = f,
                       !.content = IF ensure.tmp = 0
                                   THEN Append(@, "empty")
                                   ELSE [@ EXCEPT ![f] = "empty"]]
    /\ EnsureFrame

\* temp_path.write_text, the write and the close: the source goes into the
\* file that was opened, under whatever name it has by now.
EnsureWrite(p) ==
    /\ ensure.proc[p].pc = "write"
    /\ ensure' = [ensure EXCEPT
                    !.proc[p].pc = "replace",
                    !.content[ensure.proc[p].fd] = "full"]
    /\ EnsureFrame

\* temp_path.replace(_HARNESS_HOST_PATH): rename(2), which raises
\* FileNotFoundError when the temporary name is gone.
EnsureReplace(p) ==
    /\ ensure.proc[p].pc = "replace"
    /\ ensure' = IF ensure.tmp = 0
                 THEN [ensure EXCEPT !.proc[p].pc = "raised"]
                 ELSE [ensure EXCEPT !.proc[p].pc = "done",
                                     !.host = ensure.tmp,
                                     !.tmp = 0]
    /\ EnsureFrame

\* The next job of the process calls _harness_entrypoint again.
EnsureAgain(p) ==
    /\ ensure.proc[p].pc \in {"done", "raised"}
    /\ ensure' = [ensure EXCEPT !.proc[p].pc = "idle", !.proc[p].fd = 0]
    /\ EnsureFrame

NextEnsure ==
    \E p \in EnsureProcs :
        \/ EnsureExists(p)
        \/ EnsureMkdir(p)
        \/ EnsureOpen(p)
        \/ EnsureWrite(p)
        \/ EnsureReplace(p)
        \/ EnsureAgain(p)

SpecEnsure == Init /\ [][NextEnsure]_vars

\* C26: concurrent calls to materialise the harness file all succeed, and
\* whenever the harness path exists its content is the whole harness source,
\* never empty or partial.
C26_EnsureIsAtomic ==
    /\ \A p \in EnsureProcs : ensure.proc[p].pc # "raised"
    /\ ensure.host # 0 => ensure.content[ensure.host] = "full"

\* The two ways it fails.
C26_ReplaceRaises == \E p \in EnsureProcs : ensure.proc[p].pc = "raised"
C26_HarnessEmpty ==
    /\ ensure.host # 0
    /\ ensure.content[ensure.host] = "empty"

\* ------------------------------------------------------------------------
\* The warm-fork parent's job counter: __init__, run_problem, _run_child,
\* job_count and needs_recycle.
\* ------------------------------------------------------------------------

\* Largest max_jobs tried and most run_problem calls made.
MaxJobsLimit == 3
MaxCalls == 6

ExecutorFrame ==
    UNCHANGED <<coreVars, submitVars, warmVars, isoVars, ensure, cgroup,
                child_env>>

job_count(x) == x._job_seq

\* Faulty variant: due only after the limit has been passed.
needs_recycle_after_limit(x) == x._max_jobs > 0 /\ x._job_seq > x._max_jobs

needs_recycle(x) == x._max_jobs > 0 /\ x._job_seq >= x._max_jobs

\* was_due remembers that needs_recycle has been true at some time.
Observe(x) == [x EXCEPT !.was_due = @ \/ needs_recycle(x)]

\* __init__ with max_jobs >= 0 (a negative value raises).
ExecutorNew ==
    /\ executor.pc = "idle"
    /\ \E m \in 0..MaxJobsLimit :
         executor' = Observe([executor EXCEPT !.pc = "ready", !._max_jobs = m,
                                              !._job_seq = 0])
    /\ ExecutorFrame

\* run_problem is called, with the isolate configuration the service always
\* passes, and gets to _run_child.
ExecutorRunProblem ==
    /\ executor.pc = "ready"
    /\ executor.calls < MaxCalls
    /\ executor' = Observe([executor EXCEPT !.pc = "run_problem",
                                            !.calls = @ + 1])
    /\ ExecutorFrame

\* _run_child: self._job_seq += 1, first thing.
ExecutorRunChild ==
    /\ executor.pc = "run_problem"
    /\ executor' = Observe([executor EXCEPT !.pc = "_run_child",
                                            !._job_seq = @ + 1])
    /\ ExecutorFrame

\* _run_child returns or raises; either way run_problem returns a result.
ExecutorReturn ==
    /\ executor.pc = "_run_child"
    /\ \E how \in {"returned", "raised"} :
         executor' = Observe([executor EXCEPT !.pc = "ready", !.last = how])
    /\ ExecutorFrame

NextExecutor ==
    \/ ExecutorNew
    \/ ExecutorRunProblem
    \/ ExecutorRunChild
    \/ ExecutorReturn

SpecExecutor == Init /\ [][NextExecutor]_vars

\* C27: between calls the job count is the number of run_problem calls made
\* (one more per call, never less), needs_recycle is true exactly when
\* max_jobs > 0 and that number has reached max_jobs, once true it stays
\* true, and with max_jobs = 0 it is never true.
C27_NeedsRecycle ==
    /\ executor.pc = "ready" =>
          /\ job_count(executor) = executor.calls
          /\ needs_recycle(executor) <=>
                (executor._max_jobs > 0
                 /\ executor.calls >= executor._max_jobs)
    /\ executor.pc \in {"run_problem", "_run_child"} =>
          /\ job_count(executor) >= executor.calls - 1
          /\ job_count(executor) <= executor.calls
    /\ executor.was_due => needs_recycle(executor)
    /\ executor._max_jobs = 0 => ~needs_recycle(executor)

C27_Witness ==
    /\ executor.pc = "ready"
    /\ executor._max_jobs = 2
    /\ executor.calls = 3
    /\ executor.last = "raised"
    /\ needs_recycle(executor)

\* ------------------------------------------------------------------------
\* _derive_isolate_box_id: the sandbox box id of a worker.
\* ------------------------------------------------------------------------

BoxStreams == {"queue:light", "queue:torch", "queue:other"}
DigitSeq == <<"0", "1", "2", "3", "4", "5", "6", "7", "8", "9">>
DigitTexts ==
    {<<a>> : a \in Digits} \cup {<<a, b>> : a \in Digits, b \in Digits}
\* What a consumer name ends with, and what comes before it.
ConsumerSuffixes ==
    DigitTexts \cup {<<>>, <<"x">>, <<"1", "a">>, <<"0", "0", "7">>,
                     <<"1", "0", "0">>}
ConsumerPrefixes == {<<>>, <<"w">>, <<"w", "-">>, <<"a", "-", "b", "-">>}
Consumers == {p \o s : p \in ConsumerPrefixes, s \in ConsumerSuffixes}

\* consumer.rsplit("-", 1)[-1]: the text after the last "-", the whole name
\* if it has none.
LastDash(s) ==
    IF \E i \in 1..Len(s) : s[i] = "-"
    THEN CHOOSE i \in 1..Len(s) :
            s[i] = "-" /\ \A k \in (i + 1)..Len(s) : s[k] # "-"
    ELSE 0
RSplitLast(s) == SubSeq(s, LastDash(s) + 1, Len(s))

DigitVal(c) == (CHOOSE i \in 1..10 : DigitSeq[i] = c) - 1
RECURSIVE ParseInt(_)
\* int(suffix) for a text of decimal digits.
ParseInt(s) ==
    IF s = <<>> THEN 0
    ELSE 10 * ParseInt(SubSeq(s, 1, Len(s) - 1)) + DigitVal(s[Len(s)])

BoxRaise == [ok |-> FALSE, id |-> 0]

\* Faulty variant: index 50 passes the range check.
_derive_isolate_box_id_upto_50(stream, consumer) ==
    LET suffix == RSplitLast(consumer) IN
    IF ~IsDigit(suffix) THEN BoxRaise
    ELSE LET index == ParseInt(suffix) IN
         IF index < 1 \/ index > 50 THEN BoxRaise
         ELSE IF stream = "queue:light" THEN [ok |-> TRUE, id |-> index]
         ELSE IF stream = "queue:torch"
              THEN [ok |-> TRUE, id |-> 50 + index]
         ELSE BoxRaise

_derive_isolate_box_id(stream, consumer) ==
    LET suffix == RSplitLast(consumer) IN
    IF ~IsDigit(suffix) THEN BoxRaise
    ELSE LET index == ParseInt(suffix) IN
         IF index < 1 \/ index > 49 THEN BoxRaise
         ELSE IF stream = "queue:light" THEN [ok |-> TRUE, id |-> index]
         ELSE IF stream = "queue:torch"
              THEN [ok |-> TRUE, id |-> 50 + index]
         ELSE BoxRaise

\* A worker starts for a stream under a consumer name.
DeriveBoxId ==
    /\ call.op = "none"
    /\ \E stream \in BoxStreams, consumer \in Consumers :
         /\ call' = [op |-> "box_id", stream |-> stream,
                     consumer |-> consumer,
                     ret |-> _derive_isolate_box_id(stream, consumer)]
         /\ JudgeFrame

NextBox == DeriveBoxId
SpecBox == Init /\ [][NextBox]_vars

\* The worker index a consumer name carries, 0 if it carries none.
WorkerIndex(consumer) ==
    IF IsDigit(RSplitLast(consumer)) THEN ParseInt(RSplitLast(consumer))
    ELSE 0

\* C28: for an index i in 1..49 a light worker gets box id i and a torch
\* worker 50+i, so light ids lie in 1..49 and torch ids in 51..99, and no
\* other (stream, index) pair gets the same id; any other index, a name
\* without a numeric suffix and any other stream are rejected.
C28_BoxId ==
    call.op = "box_id" =>
        LET i == WorkerIndex(call.consumer) IN
        IF i \in 1..49 /\ call.stream \in {"queue:light", "queue:torch"}
        THEN /\ call.ret.ok
             /\ call.stream = "queue:light" =>
                   call.ret.id = i /\ call.ret.id \in 1..49
             /\ call.stream = "queue:torch" =>
                   call.ret.id = 50 + i /\ call.ret.id \in 51..99
             /\ \A s \in BoxStreams, c \in Consumers :
                   (/\ _derive_isolate_box_id(s, c).ok
                    /\ _derive_isolate_box_id(s, c).id = call.ret.id)
                   => s = call.stream /\ WorkerIndex(c) = i
        ELSE ~call.ret.ok

C28_Witness ==
    /\ call.op = "box_id"
    /\ call.stream = "queue:torch"
    /\ call.consumer = <<"a", "-", "b", "-", "4", "9">>
    /\ call.ret = [ok |-> TRUE, id |-> 99]

\* C29: with a positive cap the backlog of the stream (pending plus
\* undelivered entries) never exceeds the cap, however many submitters run
\* side by side.
C29_BacklogWithinCap == queue_maxlen > 0 => backlog <= queue_maxlen

\* A row that no step will ever finish: it is neither done nor error, no
\* entry for it was ever written to the stream, so no worker reads, reclaims
\* or executes it, and the submit call that inserted it has returned.
Stranded(j) ==
    /\ HasRow(jobs, j)
    /\ jobs[j].status \notin Terminal
    /\ \A i \in DOMAIN added : added[i].job_id # j
    /\ \A s \in Submitters : sub[s].pc \in {"idle", "returned"} \/ sub[s].job # j

\* C30: every row created by submit eventually reaches done or error, also
\* when the submitter fails between inserting the row and enqueuing the
\* entry.  For that, a row that is not yet done or error must still be on
\* its way: its submit call is in progress or its entry has been written.
C30_RowsReachTerminal == \A j \in JobIds : ~Stranded(j)

\* A stranded row stays stranded: no step of a submitter changes it.
C30_StrandedForever ==
    [][\A j \in JobIds : Stranded(j) => Stranded(j)']_vars

\* ------------------------------------------------------------------------
\* enqueue followed by the worker's parser.
\* ------------------------------------------------------------------------

ParsesBack(f) ==
    LET m == _parse_queue_message(f) IN
    /\ m.err = "none"
    /\ m.job_id = f.job_id
    /\ m.problem_key = f.problem_key
    /\ m.kind = f.kind
    /\ m.code = f.code

\* C31: every entry enqueue has written is accepted by the worker's parser,
\* which returns no error and the job_id, problem_key, kind and code that
\* were written, whatever payload enqueue accepted (every integer
\* created_at included).
C31_WrittenEntriesParse == \A i \in DOMAIN added : ParsesBack(added[i])

\* What does hold: an entry written with a created_at that is not a negative
\* integer parses back.
C31_NonNegativeParse ==
    \A i \in DOMAIN added :
        (IF added[i].created_at = <<>> THEN TRUE
         ELSE added[i].created_at[1] # "-")
            => ParsesBack(added[i])

\* C32: the parent never blocks in waitpid on a child that is still running
\* and has not been killed, also without a pidfd when the child has closed
\* both output pipes and keeps running.
C32_WaitpidOnlyOnDeadOrKilled ==
    warm.pc = "reap" => (warm.exit # "none" \/ warm.timed_out)

\* What does hold: with a pidfd the parent gets to waitpid only after the
\* child exited or was killed at the deadline.
C32_WaitpidWithPidfd ==
    (warm.pc = "reap" /\ warm.pidfd) => warm.exit # "none"

\* The parent in waitpid, the child running with its pipes closed.
C32_BlockedInWaitpid ==
    /\ warm.pc = "reap"
    /\ ~warm.pidfd
    /\ warm.closed
    /\ warm.exit = "none"
    /\ ~warm.timed_out

\* C33: the bytes the parent keeps from the child's output never exceed the
\* cap, the bytes appended by the final drain included, and whenever bytes
\* were dropped the result is flagged truncated.
C33_KeptWithinCap ==
    warm.pc = "done" =>
        /\ warm.kept <= _MAX_CHILD_OUTPUT_BYTES
        /\ (warm.kept < warm.written => warm.truncated)

\* What does hold: dropped bytes are always flagged, and a flagged result
\* keeps no more than the cap; only the unflagged drain goes over it.
C33_DroppedIsFlagged ==
    warm.pc = "done" =>
        /\ (warm.kept < warm.written => warm.truncated)
        /\ (warm.truncated => warm.kept <= _MAX_CHILD_OUTPUT_BYTES)

\* A collected result that keeps more than the cap without the flag.
C33_DrainOverCap ==
    /\ warm.pc = "done"
    /\ warm.kept > _MAX_CHILD_OUTPUT_BYTES
    /\ ~warm.truncated

\* C34: when a required setup step of a warm-fork child fails (join cgroup,
\* create session, no_new_privs, a required resource limit, a seccomp step
\* under fail-closed) the harness is never executed, the child exits non-zero
\* with the infra marker on the captured stderr, and the job is classified
\* Runtime Error with error_kind internal.
C34_SetupFailureIsInternal ==
    (warm.pc = "done" /\ warm.raised \in MarkerSteps) =>
        /\ ~Did("harness")
        /\ warm.exit = "nonzero"
        /\ warm.marker
        /\ warm.result.status = "Runtime Error"
        /\ warm.result.error_kind = "internal"

\* What does hold: a failed step never lets the harness run and the child
\* exits non-zero; the marker reaches the captured stderr, and the job the
\* kind internal, for every step that comes after the stdio redirection.
C34_FailureAfterRedirect ==
    (warm.pc = "done" /\ warm.raised \in MarkerSteps) =>
        /\ ~Did("harness")
        /\ warm.exit = "nonzero"
        /\ (warm.raised # "join_cgroup" /\ ~warm.timed_out) =>
               /\ warm.marker
               /\ warm.result.status = "Runtime Error"
               /\ warm.result.error_kind = "internal"

\* A classified job whose cgroup join failed: no marker was captured.
C34_JoinFailureUnmarked ==
    /\ warm.pc = "done"
    /\ warm.raised = "join_cgroup"
    /\ ~warm.timed_out
    /\ ~warm.marker
    /\ warm.result.error_kind = "user"

\* ------------------------------------------------------------------------
\* The per-job cgroup directories of one warm-fork executor: _run_child and
\* _CgroupV2Sandbox.create_child / destroy.  A directory job-N is modelled by
\* its number N, "no cgroup" (None) by 0.
\* ------------------------------------------------------------------------

\* Jobs one executor runs.
MaxCgroupJobs == 3
\* Directories a previous executor of the same worker may have left behind.
StaleNames == {1, 2}
CreateOutcomes == {"ok", "mkdir_fails", "config_fails"}

\* destroy: nothing when the directory does not exist; otherwise SIGKILL
\* what cgroup.procs lists, then rmdir (with processes that die within the
\* attempts the loop makes).
destroy(c, child) ==
    IF child \notin c.dirs THEN c
    ELSE [c EXCEPT !.procs = @ \ {child}, !.dirs = @ \ {child}]

\* create_child: None without a root; a directory that already exists is
\* reclaimed (destroyed and made again); a failing mkdir or a failing write
\* of the limits gives None, the latter after destroying the directory.
create_child(c, name, made) ==
    IF ~c._root THEN [c EXCEPT !.cgroup_path = 0]
    ELSE LET r == destroy(c, name) IN
         CASE made = "mkdir_fails" -> [r EXCEPT !.cgroup_path = 0]
           [] made = "config_fails" ->
                [destroy([r EXCEPT !.dirs = @ \cup {name}], name)
                    EXCEPT !.cgroup_path = 0]
           [] OTHER ->
                [r EXCEPT !.dirs = @ \cup {name}, !.cgroup_path = name]

CgroupFrame ==
    UNCHANGED <<coreVars, submitVars, warmVars, isoVars, ensure, executor,
                child_env>>

\* The job ends: the exit path is recorded and the local cgroup_path is gone.
Ended(c, how) ==
    [c EXCEPT !.pc = "ready", !.cgroup_path = 0, !.child = "none",
              !.ended = Append(@, [n |-> c._job_seq, how |-> how])]

\* __init__: the sandbox finds a delegated subtree or not; the subtree may
\* hold directories of an earlier executor.
CgroupNew ==
    /\ cgroup.pc = "new"
    /\ \E root \in BOOLEAN :
         \E stale \in (IF root THEN SUBSET StaleNames ELSE {{}}) :
            cgroup' = [cgroup EXCEPT !.pc = "ready", !._root = root,
                                     !.dirs = stale]
    /\ CgroupFrame

\* _run_child: self._job_seq += 1 and create_child("job-N").
RunChildCreate ==
    /\ cgroup.pc = "ready"
    /\ cgroup._job_seq < MaxCgroupJobs
    /\ \E made \in CreateOutcomes :
         LET n == cgroup._job_seq + 1 IN
         cgroup' = [create_child([cgroup EXCEPT !._job_seq = n], n, made)
                       EXCEPT !.pc = "created"]
    /\ CgroupFrame

\* os.open(os.devnull) or os.pipe() raises (no descriptor left): the
\* exception leaves _run_child from outside its try blocks.
RunChildOpenRaises ==
    /\ cgroup.pc = "created"
    /\ cgroup' = Ended(cgroup, "open_raises")
    /\ CgroupFrame

\* os.fork() raises: the descriptors are closed, the cgroup destroyed.
RunChildForkRaises ==
    /\ cgroup.pc = "created"
    /\ cgroup' = Ended(IF cgroup.cgroup_path # 0
                       THEN destroy(cgroup, cgroup.cgroup_path)
                       ELSE cgroup, "fork_failure")
    /\ CgroupFrame

\* os.fork() returns; the child joins its cgroup, or fails to and exits.
RunChildFork ==
    /\ cgroup.pc = "created"
    /\ \E joined \in BOOLEAN :
         cgroup' = [cgroup EXCEPT
                      !.pc = "wait",
                      !.child = "running",
                      !.procs = IF joined /\ cgroup.cgroup_path # 0
                                THEN @ \cup {cgroup.cgroup_path} ELSE @]
    /\ CgroupFrame

\* The child exits by itself while the parent waits.
CgroupChildExits ==
    /\ cgroup.pc = "wait"
    /\ cgroup.child = "running"
    /\ cgroup' = [cgroup EXCEPT !.child = "exited",
                                !.procs = @ \ {cgroup.cgroup_path}]
    /\ CgroupFrame

\* _wait_and_collect returns (the child exited, or was killed at the
\* deadline) or raises (the child may still run); finally: destroy.
RunChildCollect ==
    /\ cgroup.pc = "wait"
    /\ \E how \in {"normal", "timeout", "exception"} :
         /\ how = "normal" => cgroup.child = "exited"
         /\ LET killed == IF how = "timeout"
                          THEN [cgroup EXCEPT !.procs = @ \ {cgroup.cgroup_path}]
                          ELSE cgroup
            IN cgroup' = Ended(IF killed.cgroup_path # 0
                               THEN destroy(killed, killed.cgroup_path)
                               ELSE killed, how)
    /\ CgroupFrame

NextCgroup ==
    \/ CgroupNew
    \/ RunChildCreate
    \/ RunChildOpenRaises
    \/ RunChildForkRaises
    \/ RunChildFork
    \/ CgroupChildExits
    \/ RunChildCollect

SpecCgroup == Init /\ [][NextCgroup]_vars

\* The names given so far are pairwise different, and a forked job that has
\* a cgroup has its directory, named after the job's number.
UniqueAndCreatedBeforeFork ==
    /\ \A i, j \in DOMAIN cgroup.ended :
          i # j => cgroup.ended[i].n # cgroup.ended[j].n
    /\ (cgroup.pc = "wait" /\ cgroup.cgroup_path # 0) =>
          /\ cgroup.cgroup_path = cgroup._job_seq
          /\ cgroup.cgroup_path \in cgroup.dirs

Gone(n) == n \notin cgroup.dirs /\ n \notin cgroup.procs

\* C35: job-N is unique within the executor's lifetime, created before the
\* fork and destroyed on every exit path: after a job has ended its
\* directory does not exist and no process remains in it.
C35_CgroupDestroyedOnEveryPath ==
    /\ UniqueAndCreatedBeforeFork
    /\ \A i \in DOMAIN cgroup.ended : Gone(cgroup.ended[i].n)

\* What does hold: the same for every exit path from the fork on (fork
\* failure, normal completion, timeout, exception while collecting).
C35_CgroupDestroyedAfterFork ==
    /\ UniqueAndCreatedBeforeFork
    /\ \A i \in DOMAIN cgroup.ended :
          cgroup.ended[i].how # "open_raises" => Gone(cgroup.ended[i].n)

\* A job that ended before the fork and whose directory is still there.
C35_LeakedDirectory ==
    \E i \in DOMAIN cgroup.ended :
        /\ cgroup.ended[i].how = "open_raises"
        /\ cgroup.ended[i].n \in cgroup.dirs

\* ------------------------------------------------------------------------
\* The child's environment: _build_child_env and _apply_child_env.  An
\* environment is a function from names to a value or NULL (not set).
\* ------------------------------------------------------------------------

_THREAD_ENV_DEFAULTS ==
    [OMP_NUM_THREADS |-> "1", MKL_NUM_THREADS |-> "1",
     OPENBLAS_NUM_THREADS |-> "1", NUMEXPR_NUM_THREADS |-> "1",
     VECLIB_MAXIMUM_THREADS |-> "1", PYTORCH_NUM_THREADS |-> "1"]
_OPTIONAL_ENV_VARS == {"PYTORCH_JIT", "CUDA_VISIBLE_DEVICES"}
_SAFE_ENV_VARS == {"LANG", "LC_ALL", "LC_CTYPE", "TZ"}
\* The assignments at the end of _build_child_env.
FixedEnv ==
    [HOME |-> "/tmp", TMPDIR |-> "/tmp", TMP |-> "/tmp", TEMP |-> "/tmp",
     PATH |-> "/usr/bin:/bin", PYTHONNOUSERSITE |-> "1"]

\* The names a parent environment of the model sets or leaves unset: one of
\* each list, one the child overwrites, one that is on no list.
ParentNames == {"LANG", "OMP_NUM_THREADS", "PYTORCH_JIT", "HOME", "REDIS_URL"}
EnvValues == {"1", "2"}
ParentEnvs == [ParentNames -> EnvValues \cup {NULL}]
ChildNames ==
    ParentNames \cup DOMAIN _THREAD_ENV_DEFAULTS \cup _OPTIONAL_ENV_VARS
        \cup _SAFE_ENV_VARS \cup DOMAIN FixedEnv

\* base_env.get(name)
EnvGet(base_env, name) ==
    IF name \in DOMAIN base_env THEN base_env[name] ELSE NULL

\* Faulty variant: the parent's environment is copied whatever clear_env is.
_build_child_env_keeps_base(clear_env, base_env) ==
    LET copied == [n \in ChildNames |-> EnvGet(base_env, n)]
        threads == [n \in ChildNames |->
                      IF n \in DOMAIN _THREAD_ENV_DEFAULTS
                      THEN IF EnvGet(base_env, n) # NULL
                           THEN EnvGet(base_env, n)
                           ELSE _THREAD_ENV_DEFAULTS[n]
                      ELSE copied[n]]
    IN [n \in ChildNames |->
          IF n \in DOMAIN FixedEnv THEN FixedEnv[n] ELSE threads[n]]

\* _build_child_env, update by update.
_build_child_env(clear_env, base_env) ==
    LET start == [n \in ChildNames |->
                    IF ~clear_env THEN EnvGet(base_env, n)
                    ELSE IF n \in _SAFE_ENV_VARS THEN EnvGet(base_env, n)
                    ELSE NULL]
        threads == [n \in ChildNames |->
                      IF n \in DOMAIN _THREAD_ENV_DEFAULTS
                      THEN IF EnvGet(base_env, n) # NULL
                           THEN EnvGet(base_env, n)
                           ELSE _THREAD_ENV_DEFAULTS[n]
                      ELSE start[n]]
        optional == [n \in ChildNames |->
                       IF n \in _OPTIONAL_ENV_VARS /\ EnvGet(base_env, n) # NULL
                       THEN EnvGet(base_env, n)
                       ELSE threads[n]]
    IN [n \in ChildNames |->
          IF n \in DOMAIN FixedEnv THEN FixedEnv[n] ELSE optional[n]]

EnvFrame ==
    UNCHANGED <<coreVars, submitVars, warmVars, isoVars, ensure, executor,
                cgroup>>

\* _apply_child_env, first line, in two children forked from two parent
\* environments by executors with the same clear_env.
BuildChildEnv ==
    /\ child_env.pc = "idle"
    /\ \E clear_env \in BOOLEAN :
         \E a, b \in ParentEnvs :
            child_env' = [child_env EXCEPT
                            !.pc = "built",
                            !.clear_env = clear_env,
                            !.base = <<a, b>>,
                            !.environ = <<a, b>>,
                            !.child = <<_build_child_env(clear_env, a),
                                        _build_child_env(clear_env, b)>>]
    /\ EnvFrame

\* _apply_child_env, the rest: os.environ.clear(); os.environ.update(...)
ApplyChildEnv ==
    /\ child_env.pc = "built"
    /\ child_env' = [child_env EXCEPT !.pc = "applied",
                                      !.environ = child_env.child]
    /\ EnvFrame

NextEnv ==
    \/ BuildChildEnv
    \/ ApplyChildEnv

SpecEnv == Init /\ [][NextEnv]_vars

\* The names whose parent value may reach the child when clear_env is on.
Allowlisted ==
    _SAFE_ENV_VARS \cup DOMAIN _THREAD_ENV_DEFAULTS \cup _OPTIONAL_ENV_VARS

AgreeOnAllowlist ==
    \A n \in Allowlisted :
        EnvGet(child_env.base[1], n) = EnvGet(child_env.base[2], n)

\* C36: with clear_env on, two parent environments that agree on the
\* allowlisted variables give identical environments to the user code, and
\* every other name is unset or has its fixed value.
C36_ChildEnvFromAllowlistOnly ==
    (child_env.pc = "applied" /\ child_env.clear_env) =>
        /\ AgreeOnAllowlist => child_env.environ[1] = child_env.environ[2]
        /\ \A i \in {1, 2} : \A n \in ChildNames \ Allowlisted :
              child_env.environ[i][n] =
                  IF n \in DOMAIN FixedEnv THEN FixedEnv[n] ELSE NULL

\* Two parents that differ in a variable on no list and one the child
\* overwrites, and agree on the allowlist, some of which is set.
C36_Witness ==
    /\ child_env.pc = "applied"
    /\ child_env.clear_env
    /\ AgreeOnAllowlist
    /\ child_env.base[1]["REDIS_URL"] # child_env.base[2]["REDIS_URL"]
    /\ child_env.base[1]["HOME"] # child_env.base[2]["HOME"]
    /\ child_env.base[1]["LANG"] # NULL
    /\ child_env.environ[1] = child_env.environ[2]
    /\ child_env.environ[1]["LANG"] = child_env.base[1]["LANG"]

\* The worker died inside ack_and_delete, after XACK returned and before
\* XDEL was sent.
CrashedBetween(w) ==
    /\ pc[w] = "crashed"
    /\ Has(w, <<"xack", "ok">>)
    /\ ~Has(w, <<"xdel", "ok">>)
    /\ ~Has(w, <<"xdel", "raise">>)

\* This step is an autoclaim that returns entry m to worker w.
AutoclaimReturns(w, m) ==
    /\ pc[w] = "loop"
    /\ pc'[w] = "drain"
    /\ \E i \in DOMAIN todo'[w] : todo'[w][i].id = m

\* Delivered once and off the pending list: the entry has been XACKed.
Acked(m) == m <= lastDelivered /\ pel[m] = "none"

CaseOutcomes == CaseStatuses \cup {"SystemExit"}

\* The cases that end in a BaseException `except Exception` does not catch.
Escaping(cases, behave) ==
    {i \in DOMAIN cases : behave[cases[i].id] = "SystemExit"}

\* run_cases as a whole: what it prints and how many cases it started.  A
\* BaseException leaves the for loop and run_cases before print(...).
run_cases_output(cases, compile, behave) ==
    IF compile # "ok"
    THEN [printed |-> TRUE, ran |-> 0,
          records |-> run_cases(cases, compile, behave)]
    ELSE IF Escaping(cases, behave) # {}
    THEN [printed |-> FALSE, ran |-> Min(Escaping(cases, behave)),
          records |-> <<>>]
    ELSE [printed |-> TRUE, ran |-> Len(cases),
          records |-> run_cases(cases, compile, behave)]

\* The harness runs on a configuration with np public and nh hidden cases.
RunHarness ==
    /\ call.op = "none"
    /\ \E np \in 0..MaxCases, nh \in 0..MaxCases, compile \in Compiles :
        \E behave \in [1..(np + nh) -> CaseOutcomes] :
          LET cases == _build_test_config(_build_problem(np, nh, TRUE), TRUE)
          IN /\ call' = [op |-> "harness", compile |-> compile,
                         cases |-> cases, behave |-> behave,
                         out |-> run_cases_output(cases, compile, behave)]
             /\ JudgeFrame

NextHarness == RunHarness
SpecHarness == Init /\ [][NextHarness]_vars

\* One record per case, in order, each with one of the three statuses, and
\* every case was started.
OneRecordPerCase ==
    /\ call.out.printed
    /\ call.out.ran = Len(call.cases)
    /\ Len(call.out.records) = Len(call.cases)
    /\ \A i \in DOMAIN call.cases :
          /\ call.out.records[i].id = call.cases[i].id
          /\ call.out.records[i].status \in CaseStatuses

\* Exactly one synthetic record, and no case was started.
OneErrorRecord ==
    /\ call.out.printed
    /\ call.out.ran = 0
    /\ Len(call.out.records) = 1
    /\ call.out.records[1].id = "error"
    /\ call.out.records[1].status = "Runtime Error"

\* C38: the harness emits one record per configured case, in order, each
\* Accepted, Wrong Answer or Runtime Error, whatever a case raises; when the
\* runner expression or the user code does not compile it emits exactly one
\* record with id error and status Runtime Error and runs no case.
C38_OneRecordPerCase ==
    call.op = "harness" =>
        IF call.compile = "ok" THEN OneRecordPerCase ELSE OneErrorRecord

\* What does hold: the same when no case raises past `except Exception`.
C38_OneRecordPerCaseNoEscape ==
    (call.op = "harness" /\ Escaping(call.cases, call.behave) = {}) =>
        IF call.compile = "ok" THEN OneRecordPerCase ELSE OneErrorRecord

\* The first of several cases calls sys.exit(): nothing is printed and the
\* later cases are not run.
C38_ExitStopsHarness ==
    /\ call.op = "harness"
    /\ call.compile = "ok"
    /\ Len(call.cases) > 1
    /\ call.behave[1] = "SystemExit"
    /\ ~call.out.printed
    /\ call.out.ran = 1

\* ------------------------------------------------------------------------
\* The summary of a run result: _summarize_results on the harness's records,
\* _build_error_summary on every path that has no records.
\* ------------------------------------------------------------------------

\* How a job ends for run_problem: the harness's output was parsed, or the
\* run timed out, ran out of memory, failed, or printed no valid JSON.
RunEnds ==
    {"output", "timeout", "memory", "runner_failed", "invalid_output"}

_build_error_summary(problem, include_hidden, total_cases) ==
    [total |-> total_cases,
     passed |-> 0,
     failed |-> total_cases,
     public_total |-> IF ~include_hidden THEN total_cases
                      ELSE Len(problem.public_tests),
     hidden_total |-> IF ~include_hidden THEN 0
                      ELSE Len(problem.hidden_tests)]

\* The counts of _summarize_results, by visibility as well.
ResultSummary(results) ==
    LET s == _summarize_results(results)
        hidden == {i \in DOMAIN results : results[i].hidden}
    IN [total |-> s.total, passed |-> s.passed, failed |-> s.total - s.passed,
        public_total |-> s.total - Cardinality(hidden),
        hidden_total |-> Cardinality(hidden)]

\* run_problem's "summary" for a job of the given kind.
SummariseJob ==
    /\ call.op = "none"
    /\ \E kind \in {KindRun, KindSubmit}, np \in 0..MaxCases, nh \in 0..MaxCases,
       compile \in Compiles, end \in RunEnds :
      \E behave \in [1..(np + nh) -> CaseStatuses] :
        LET rp == _resolve_problem(kind, np, nh)
            cases == _build_test_config(rp.problem, rp.include_hidden)
            results == run_cases(cases, compile, behave)
        IN /\ call' = [op |-> "summary", kind |-> kind, np |-> np, nh |-> nh,
                       compile |-> compile, end |-> end, cases |-> cases,
                       summary |->
                          IF end = "output" THEN ResultSummary(results)
                          ELSE _build_error_summary(rp.problem,
                                                    rp.include_hidden,
                                                    Len(cases))]
           /\ JudgeFrame

NextSummary == SummariseJob
SpecSummary == Init /\ [][NextSummary]_vars

\* The cases configured for the job: the public ones, and the hidden ones
\* for a submit.
Configured ==
    call.np + (IF call.kind = KindSubmit THEN call.nh ELSE 0)

\* C39: in every run result summary.total is the number of configured cases
\* and summary.failed is total - passed, for every outcome, compile errors,
\* timeouts and executor failures included.
C39_SummaryCountsConfigured ==
    call.op = "summary" =>
        /\ call.summary.total = Configured
        /\ call.summary.failed = call.summary.total - call.summary.passed

\* What does hold: failed is always total - passed, and total is the number
\* of configured cases unless the harness reported a compile error.
C39_SummaryCountsRecords ==
    call.op = "summary" =>
        /\ call.summary.failed = call.summary.total - call.summary.passed
        /\ (call.end # "output" \/ call.compile = "ok")
              => call.summary.total = Configured

\* A compile error on a problem with more than one case: total is 1.
C39_CompileErrorTotal ==
    /\ call.op = "summary"
    /\ call.end = "output"
    /\ call.compile # "ok"
    /\ Configured > 1
    /\ call.summary.total = 1

\* The columns a row of the given status has to have.
RowInvariant(row) ==
    /\ row.status = "queued" =>
          /\ row.attempts = 0
          /\ row.started_at = NullTime
          /\ row.finished_at = NullTime
          /\ row.result_json = NULL
    /\ row.status = "running" =>
          /\ row.attempts >= 1
          /\ row.started_at # NullTime
          /\ row.finished_at = NullTime
    /\ row.status = "done" =>
          /\ row.attempts >= 1
          /\ row.started_at # NullTime
          /\ row.finished_at # NullTime
          /\ row.result_json # NULL
          /\ row.error = NULL
          /\ row.error_kind = NULL
    /\ row.status = "error" =>
          /\ row.finished_at # NullTime
          /\ row.error # NULL

\* C40: in every reachable state of the result store each row satisfies:
\* queued implies attempts = 0 and started_at, finished_at, result null;
\* running implies attempts >= 1, started_at set, finished_at null; done
\* implies attempts >= 1, started_at and finished_at set, result set, error
\* and error_kind null; error implies finished_at and error set.
C40_RowInvariants ==
    \A j \in JobIds : HasRow(jobs, j) => RowInvariant(jobs[j])

\* One job done after a reclaim, another put in error straight from queued
\* (no attempt, never started).
C40_Witness ==
    \E j, k \in JobIds :
        /\ HasRow(jobs, j) /\ HasRow(jobs, k)
        /\ jobs[j].status = "done"
        /\ jobs[j].attempts = 2
        /\ jobs[k].status = "error"
        /\ jobs[k].attempts = 0
        /\ jobs[k].started_at = NullTime

====
